---- MODULE Spec2Model ----
(***************************************************************************)
(* Anime-Analytics-Dashboard, ETL pipeline: the database loader            *)
(* (services/etl/src/loaders/database.py), the scheduler                   *)
(* (services/etl/scheduler.py) and the Jikan extractor                     *)
(* (services/etl/src/extractors/jikan.py).                                 *)
(*                                                                         *)
(* The store is the PostgreSQL table anime_snapshots.  A session is one    *)
(* PostgreSQL transaction: a statement the server rejects puts the         *)
(* transaction in the aborted state, every later statement of the same     *)
(* transaction is rejected too, and COMMIT of an aborted transaction is    *)
(* executed as ROLLBACK without raising.                                   *)
(***************************************************************************)
EXTENDS Integers, Sequences, FiniteSets, TLC

\* ------------------------------------------------------------------ bounds
MaxMalId == 2
MaxLen == 2
NumThreads == 2
MaxTriggers == 3
MaxApiPages == 2
PerPage == 2
NumCallers == 2
MaxWaits == 3
MaxRuns == 3
MaxJobRuns == 3
MaxBatchRecords == 4

\* ------------------------------------------------------ program constants
MaxAttempts == 3
DefaultRetryAfter == 60
\* load_snapshots(..., batch_size: int = 100, ...)
DefaultBatchSize == 100
\* settings.jikan_rate_limit_delay (1.5 s) in milliseconds
jikan_rate_limit_delay == 1500
\* wait_exponential(multiplier=1, min=4, max=10), in seconds
WaitMin == 4
WaitMax == 10
\* _clean_text: "if len(cleaned) > 5000"
TextLimit == 5000
\* _clean_text: "cleaned[:4997]"
TruncatedLength == 4997

\* ------------------------------------------------------- loader: the data
SnapshotTypes == {"top"}
SnapshotDates == {1}

\* How the write statement of a snapshot ends:
\*   "none"   it is accepted;
\*   "server" PostgreSQL rejects it (a title longer than String(500), a NULL
\*            in a NOT NULL column): the transaction is aborted;
\*   "client" the error is raised before the statement reaches the server
\*            (_snapshot_to_dict or the driver's parameter binding): the
\*            transaction stays usable.
Faults == {"none", "server", "client"}

\* What a snapshot holds in its data columns is written as one tag, its
\* content: two snapshots of one anime with different contents differ in
\* every data column.
Contents == {1, 2}

\* The snapshots of the calls that are followed for their statistics.
AnimeSnapshot ==
    [mal_id : 1..MaxMalId, snapshot_type : SnapshotTypes,
     snapshot_date : SnapshotDates, fault : Faults, content : {1}]

\* The snapshots of the calls that are followed for the stored columns.
AnimeSnapshotData ==
    [mal_id : 1..MaxMalId, snapshot_type : SnapshotTypes,
     snapshot_date : SnapshotDates, fault : {"none"}, content : Contents]

NaturalKey(r) == <<r.mal_id, r.snapshot_type, r.snapshot_date>>

\* The columns ON CONFLICT ... DO UPDATE SET assigns from EXCLUDED.
UpdatedColumns == {"title", "score", "rank", "popularity", "members", "favorites"}

\* Four of the other data columns of the INSERT; the remaining ones are
\* treated by the statements exactly as these are.
OtherColumns == {"synopsis", "genres", "episodes", "status"}

\* _snapshot_to_dict(snapshot) as the row a successful INSERT stores;
\* updated_at gets its server default.
Row(snapshot) ==
    [mal_id |-> snapshot.mal_id, snapshot_type |-> snapshot.snapshot_type,
     snapshot_date |-> snapshot.snapshot_date,
     data |-> [column \in UpdatedColumns \cup OtherColumns |-> snapshot.content],
     updated_at |-> "default"]

SeqsUpTo(S, n) == UNION {[1..k -> S] : k \in 0..n}

Min(a, b) == IF a < b THEN a ELSE b

KeySet(rows) == {NaturalKey(rows[i]) : i \in 1..Len(rows)}

\* ------------------------------------------------- loader: the statements
\* SELECT id FROM anime_snapshots WHERE mal_id = .. AND snapshot_type = ..
\* AND snapshot_date = ..  (.fetchone() is truthy iff a row matches)
SelectExisting(rows, snapshot) ==
    \E i \in 1..Len(rows) : NaturalKey(rows[i]) = NaturalKey(snapshot)

\* A mutant of UpsertStatement: the ON CONFLICT clause is missing.
UpsertAlwaysInserts(rows, snapshot) == Append(rows, Row(snapshot))

\* A mutant of UpsertStatement: DO UPDATE SET assigns every column.
UpsertReplacesRow(rows, snapshot) ==
    IF SelectExisting(rows, snapshot)
    THEN [i \in 1..Len(rows) |->
            IF NaturalKey(rows[i]) = NaturalKey(snapshot)
            THEN Row(snapshot) ELSE rows[i]]
    ELSE Append(rows, Row(snapshot))

\* DO UPDATE SET title = EXCLUDED.title, ..., updated_at = CURRENT_TIMESTAMP
DoUpdate(row, excluded) ==
    [row EXCEPT !.data = [column \in DOMAIN row.data |->
                             IF column \in UpdatedColumns
                             THEN excluded.data[column] ELSE row.data[column]],
                !.updated_at = "current_timestamp"]

\* INSERT ... ON CONFLICT (mal_id, snapshot_type, snapshot_date) DO UPDATE
UpsertStatement(rows, snapshot) ==
    IF SelectExisting(rows, snapshot)
    THEN [i \in 1..Len(rows) |->
            IF NaturalKey(rows[i]) = NaturalKey(snapshot)
            THEN DoUpdate(rows[i], Row(snapshot)) ELSE rows[i]]
    ELSE Append(rows, Row(snapshot))

\* INSERT without ON CONFLICT
InsertStatement(rows, snapshot) == Append(rows, Row(snapshot))

batch_stats0 ==
    [successful_inserts |-> 0, successful_updates |-> 0,
     duplicate_skips |-> 0, errors |-> 0, error_details |-> <<>>]

RecordError(acc, snapshot, txn) ==
    [acc EXCEPT !.txn = txn,
                !.batch_stats.errors = @ + 1,
                !.batch_stats.error_details = Append(@, snapshot.mal_id),
                !.outcomes = Append(@, "error")]

\* A mutant of LoadRecord: every successful upsert is counted as an insert.
LoadRecordCountsInsert(acc, snapshot, upsert) ==
    IF acc.txn = "aborted" THEN RecordError(acc, snapshot, "aborted")
    ELSE IF ~upsert /\ SelectExisting(acc.rows, snapshot)
    THEN [acc EXCEPT !.batch_stats.duplicate_skips = @ + 1,
                     !.outcomes = Append(@, "skip")]
    ELSE IF snapshot.fault = "client" THEN RecordError(acc, snapshot, "active")
    ELSE IF snapshot.fault = "server" THEN RecordError(acc, snapshot, "aborted")
    ELSE IF upsert
    THEN [acc EXCEPT !.rows = UpsertStatement(acc.rows, snapshot),
                     !.batch_stats.successful_inserts = @ + 1,
                     !.outcomes = Append(@, "insert")]
    ELSE [acc EXCEPT !.rows = InsertStatement(acc.rows, snapshot),
                     !.batch_stats.successful_inserts = @ + 1,
                     !.outcomes = Append(@, "insert")]

\* A mutant of LoadRecord: upsert=False does not skip an existing key.
LoadRecordNoSkip(acc, snapshot, upsert) ==
    IF acc.txn = "aborted" THEN RecordError(acc, snapshot, "aborted")
    ELSE IF snapshot.fault = "client" THEN RecordError(acc, snapshot, "active")
    ELSE IF snapshot.fault = "server" THEN RecordError(acc, snapshot, "aborted")
    ELSE IF upsert
    THEN IF SelectExisting(acc.rows, snapshot)
         THEN [acc EXCEPT !.rows = UpsertStatement(acc.rows, snapshot),
                          !.batch_stats.successful_updates = @ + 1,
                          !.outcomes = Append(@, "update")]
         ELSE [acc EXCEPT !.rows = UpsertStatement(acc.rows, snapshot),
                          !.batch_stats.successful_inserts = @ + 1,
                          !.outcomes = Append(@, "insert")]
    ELSE [acc EXCEPT !.rows = InsertStatement(acc.rows, snapshot),
                     !.batch_stats.successful_inserts = @ + 1,
                     !.outcomes = Append(@, "insert")]

\* The body of "for snapshot in batch" of _load_batch, one iteration.
\* acc: the session's rows, its transaction state, the statistics so far and
\* the outcome of every record so far.
LoadRecord(acc, snapshot, upsert) ==
    IF acc.txn = "aborted"
    THEN \* the SELECT is rejected: current transaction is aborted
         RecordError(acc, snapshot, "aborted")
    ELSE LET existing == SelectExisting(acc.rows, snapshot) IN
         IF ~upsert /\ existing
         THEN [acc EXCEPT !.batch_stats.duplicate_skips = @ + 1,
                          !.outcomes = Append(@, "skip")]
         ELSE IF snapshot.fault = "client"
         THEN RecordError(acc, snapshot, "active")
         ELSE IF snapshot.fault = "server"
         THEN RecordError(acc, snapshot, "aborted")
         ELSE IF upsert
         THEN IF existing
              THEN [acc EXCEPT !.rows = UpsertStatement(acc.rows, snapshot),
                               !.batch_stats.successful_updates = @ + 1,
                               !.outcomes = Append(@, "update")]
              ELSE [acc EXCEPT !.rows = UpsertStatement(acc.rows, snapshot),
                               !.batch_stats.successful_inserts = @ + 1,
                               !.outcomes = Append(@, "insert")]
         ELSE [acc EXCEPT !.rows = InsertStatement(acc.rows, snapshot),
                          !.batch_stats.successful_inserts = @ + 1,
                          !.outcomes = Append(@, "insert")]

\* The record the loop is at is noted before it is worked on.
Attempting(acc, snapshot) ==
    [acc EXCEPT !.attempted = Append(@, snapshot.mal_id)]

RECURSIVE LoadRecordsBackwards(_, _, _, _)
\* A mutant of LoadRecords: the batch is walked from its end.
LoadRecordsBackwards(acc, batch, upsert, i) ==
    IF i > Len(batch) THEN acc
    ELSE LoadRecordsBackwards(
            LoadRecord(Attempting(acc, batch[Len(batch) + 1 - i]),
                       batch[Len(batch) + 1 - i], upsert),
            batch, upsert, i + 1)

RECURSIVE LoadRecords(_, _, _, _)
\* for snapshot in batch
LoadRecords(acc, batch, upsert, i) ==
    IF i > Len(batch) THEN acc
    ELSE LoadRecords(LoadRecord(Attempting(acc, batch[i]), batch[i], upsert),
                     batch, upsert, i + 1)

\* A mutant of CommitBatch: a failed commit leaves the statistics as counted.
CommitBatchKeepsErrors(committed, acc, batch, commit_fails) ==
    IF commit_fails
    THEN [rows |-> committed, batch_stats |-> acc.batch_stats,
          events |-> <<"commit_failed", "rollback", "close">>]
    ELSE IF acc.txn = "aborted"
    THEN [rows |-> committed, batch_stats |-> acc.batch_stats,
          events |-> <<"commit", "close">>]
    ELSE [rows |-> acc.rows, batch_stats |-> acc.batch_stats,
          events |-> <<"commit", "close">>]

\* session.commit() and the except/finally of _load_batch.
CommitBatch(committed, acc, batch, commit_fails) ==
    IF commit_fails
    THEN \* except Exception: session.rollback(); errors = len(batch)
         [rows |-> committed,
          batch_stats |-> [acc.batch_stats EXCEPT !.errors = Len(batch)],
          events |-> <<"commit_failed", "rollback", "close">>]
    ELSE IF acc.txn = "aborted"
    THEN \* COMMIT of an aborted transaction: ROLLBACK, nothing raised
         [rows |-> committed, batch_stats |-> acc.batch_stats,
          events |-> <<"commit", "close">>]
    ELSE [rows |-> acc.rows, batch_stats |-> acc.batch_stats,
          events |-> <<"commit", "close">>]

\* DatabaseLoader._load_batch on the committed rows.
load_batch(committed, batch, upsert, commit_fails) ==
    LET acc0 == [rows |-> committed, txn |-> "active",
                 batch_stats |-> batch_stats0, outcomes |-> <<>>,
                 attempted |-> <<>>]
        acc == LoadRecords(acc0, batch, upsert, 1)
        done == CommitBatch(committed, acc, batch, commit_fails)
    IN  [rows |-> done.rows, batch_stats |-> done.batch_stats,
         outcomes |-> acc.outcomes, attempted |-> acc.attempted,
         log |-> [batch |-> batch, before |-> committed, after |-> done.rows,
                  batch_stats |-> done.batch_stats,
                  commit_failed |-> commit_fails, events |-> done.events,
                  session |-> <<"SessionLocal">> \o done.events]]

\* A mutant of Aggregate: the statistics of a batch replace those before it.
AggregateOverwrites(stats, batch_stats) == batch_stats

\* "Aggregate statistics" of load_snapshots.
Aggregate(stats, batch_stats) ==
    [successful_inserts |-> stats.successful_inserts + batch_stats.successful_inserts,
     successful_updates |-> stats.successful_updates + batch_stats.successful_updates,
     duplicate_skips |-> stats.duplicate_skips + batch_stats.duplicate_skips,
     errors |-> stats.errors + batch_stats.errors,
     error_details |-> stats.error_details \o batch_stats.error_details]

RECURSIVE LoadBatchesStopAtFailure(_, _, _, _, _, _)
\* A mutant of LoadBatches: the loop is left at the batch whose commit fails.
LoadBatchesStopAtFailure(acc, snapshots, batch_size, upsert, failing, i) ==
    IF i >= Len(snapshots) THEN acc
    ELSE LET batch == SubSeq(snapshots, i + 1, Min(i + batch_size, Len(snapshots)))
             b == load_batch(acc.rows, batch, upsert, (i \div batch_size) + 1 = failing)
             next == [rows |-> b.rows,
                      stats |-> Aggregate(acc.stats, b.batch_stats),
                      outcomes |-> acc.outcomes \o b.outcomes,
                      attempted |-> acc.attempted \o b.attempted,
                      batches |-> Append(acc.batches, b.log)]
         IN  IF (i \div batch_size) + 1 = failing THEN next
             ELSE LoadBatchesStopAtFailure(next, snapshots, batch_size, upsert,
                                           failing, i + batch_size)

\* for i in range(0, len(snapshots), batch_size); failing is the number of
\* the batch whose commit fails (0: none).
RECURSIVE LoadBatches(_, _, _, _, _, _)
LoadBatches(acc, snapshots, batch_size, upsert, failing, i) ==
    IF i >= Len(snapshots) THEN acc
    ELSE LET batch == SubSeq(snapshots, i + 1, Min(i + batch_size, Len(snapshots)))
             b == load_batch(acc.rows, batch, upsert, (i \div batch_size) + 1 = failing)
         IN  LoadBatches([rows |-> b.rows,
                          stats |-> Aggregate(acc.stats, b.batch_stats),
                          outcomes |-> acc.outcomes \o b.outcomes,
                          attempted |-> acc.attempted \o b.attempted,
                          batches |-> Append(acc.batches, b.log)],
                         snapshots, batch_size, upsert, failing, i + batch_size)

\* DatabaseLoader.load_snapshots on the committed rows.
load_snapshots(committed, snapshots, batch_size, upsert, failing) ==
    LoadBatches([rows |-> committed, stats |-> batch_stats0,
                 outcomes |-> <<>>, attempted |-> <<>>, batches |-> <<>>],
                snapshots, batch_size, upsert, failing, 0)

NumBatches(n, batch_size) == (n + batch_size - 1) \div batch_size

\* ------------------------------------------------------------------ state
VARIABLES
    store,          \* the committed rows of anime_snapshots
    storeBefore,    \* the committed rows when the last call started
    lastCall,       \* the arguments of the last load_snapshots call
    stats,          \* the statistics the last call returned
    outcomes,       \* what the last call did with each record, in order
    attempted,      \* the mal_ids the last call worked on, in order
    batches,        \* one entry per batch of the last call
    repeat,         \* the last call repeated its predecessor, both upsert
    prevErrors,     \* stats.errors of the call before the last one
    called,         \* load_snapshots has been called at least once
    loaded          \* number of records passed to load_snapshots so far

loaderVars == <<store, storeBefore, lastCall, stats, outcomes, attempted, batches,
                repeat, prevErrors, called, loaded>>

\* ETLScheduler: the busy flag and the threads that call its triggers.
VARIABLES
    is_running,     \* ETLScheduler.is_running
    pc,             \* where each caller of a trigger is
    entry,          \* the trigger each caller invoked last
    result,         \* how each caller's last pipeline run ended
    invoked,        \* number of trigger invocations so far
    skipped,        \* number of invocations that returned at the busy check
    started         \* number of invocations that set the flag and ran

schedulerVars == <<is_running, pc, entry, result, invoked, skipped, started>>

\* JikanExtractor.fetch_anime_search and the _make_request it awaits.
VARIABLES
    fetch_pc,       \* "idle", "request" (an HTTP attempt is due) or "done"
    max_pages,      \* the page cap of the fetch, NoCap for None
    current_page,   \* fetch_anime_search.current_page
    attempt,        \* number of the attempt of _make_request that is due
    all_anime,      \* the items collected so far (by mal_id), in order
    n429,           \* attempts of the current page request answered 429
    nOther,         \* attempts of the current page request that failed otherwise
    lastResponse,   \* what the last HTTP attempt was answered with
    lastPage,       \* the page the last HTTP attempt asked for
    slept,          \* the sleeps of the last HTTP attempt, in order
    exit,           \* why the while loop of the last fetch was left
    trace           \* what the fetch did so far: its sleeps and its requests

extractorVars == <<fetch_pc, max_pages, current_page, attempt, all_anime,
                   n429, nOther, lastResponse, lastPage, slept, exit, trace>>

\* JikanRateLimiter: one limiter and the coroutines that await its wait().
VARIABLES
    lock_holder,    \* the coroutine that holds self.lock, 0 when it is free
    lock_waiters,   \* the coroutines blocked in lock.acquire(), first come first
    wait_pc,        \* where each coroutine is: "idle", "waiting", "sleeping"
    wake,           \* when the asyncio.sleep of each coroutine is over (ms)
    now,            \* the event loop's clock (ms)
    returns,        \* the moments at which wait() returned, in order
    waits           \* number of wait() calls so far

limiterVars == <<lock_holder, lock_waiters, wait_pc, wake, now, returns, waits>>

\* AnimeTransformer and the calls of transform_anime_list.
VARIABLES
    transformation_stats,   \* AnimeTransformer.transformation_stats
    validation_errors,      \* AnimeTransformer.validation_errors (mal_ids)
    anime_list,             \* the argument of the last transform_anime_list
    transformed,            \* the list the last transform_anime_list returned
    statsBefore,            \* transformation_stats when the last call started
    transform_raised,       \* the last transform_anime_list raised
                            \* (the four start afresh with reset_stats)
    fed                     \* number of records passed to the transformer so far

transformerVars == <<transformation_stats, validation_errors, anime_list,
                     transformed, statsBefore, transform_raised, fed>>

\* ETLPipeline.run_job
VARIABLES
    job_pc,         \* "idle", "extract", "load", "done" (returned) or "raised"
    job_name,       \* the argument of run_job
    endpoint,       \* job_config["endpoint"], "none" for an unknown job
    job_status,     \* job_result["status"]
    job_error,      \* job_result["error"]: "none" or "message"
    phases,         \* the phases run_job has started, in order
    extraction,     \* <<n>> once the extraction returned n records, else <<>>
    transformation  \* <<n>> once the transformation returned n snapshots

jobVars == <<job_pc, job_name, endpoint, job_status, job_error, phases,
            extraction, transformation>>

\* AnimeTransformer._clean_text
VARIABLES
    text_called,    \* whether _clean_text has been called
    text_in,        \* its argument: <<>> for None, <<t>> for the string t
    text_out        \* its result: <<>> for None, <<t>> for the string t

textVars == <<text_called, text_in, text_out>>

\* ETLPipeline.run_all_jobs
VARIABLES
    all_pc,             \* "idle", "loop" or "done"
    todo,               \* the job names the for loop has not reached yet
    pipeline_result,    \* status, jobs (in insertion order) and summary
    pipeline_stats,     \* self.pipeline_stats: jobs_executed and errors
    job_log             \* how each run_job call of the loop went

runAllVars == <<all_pc, todo, pipeline_result, pipeline_stats, job_log>>

\* main() of main.py and of scheduler.py, in one-shot mode
VARIABLES
    main_pc,        \* "idle", "running" or "exited"
    main_mode,      \* "job" (--job NAME), "all" (no argument), "run_once"
    main_result,    \* result["status"] of the run, "none" without a result
    exit_code       \* the exit code of the process

mainVars == <<main_pc, main_mode, main_result, exit_code>>

\* ETLScheduler.run_scheduler, the daemon loop
VARIABLES
    daemon_pc,      \* "idle", "poll", "error_sleep" or "stopped"
    startup,        \* how the connection test at start-up went
    due,            \* a scheduled job is due and has not been run yet
    triggers,       \* the number of times a scheduled job has come due
    cycles,         \* the outcome of every scheduled run, in order
    interrupted     \* a KeyboardInterrupt has reached the loop

daemonVars == <<daemon_pc, startup, due, triggers, cycles, interrupted>>

\* ETLScheduler.run_once_now, called while the triggers are in use
VARIABLES
    once_pc,        \* "idle" or "run" (inside asyncio.run(self.run_daily_etl()))
    once_result     \* result["status"] of the last on-demand run

onDemandVars == <<once_pc, once_result>>

\* The job results run_job has returned, as their callers hold them.
VARIABLES
    returned        \* each result with the values it had when it was returned

resultsVars == <<returned>>

\* DatabaseLoader._snapshot_to_dict and the score column of the row written
VARIABLES
    score_called,   \* a snapshot has been written
    score_in,       \* snapshot.score: <<>> for None, <<s>> for s hundredths
    score_stored    \* the score of the stored row: <<>> for NULL

scoreVars == <<score_called, score_in, score_stored>>

\* AnimeTransformer._transform_single_anime, the entity lists of one record
VARIABLES
    entities_called,    \* a record has been transformed
    entities_in,        \* the entity lists of the raw record, by field
    entities_out        \* the entity lists of the snapshot, by field

entityVars == <<entities_called, entities_in, entities_out>>

vars == <<loaderVars, schedulerVars, extractorVars, limiterVars, transformerVars,
          jobVars,
          textVars,
          runAllVars,
          mainVars,
          daemonVars,
          onDemandVars,
          resultsVars,
          scoreVars,
          entityVars>>

\* The table as earlier runs left it: empty, or holding one row.
PriorStores == {<<>>} \cup {<<Row(s)>> : s \in AnimeSnapshot}

InitLoader(prior) ==
    /\ store = prior
    /\ storeBefore = prior
    /\ lastCall = [snapshots |-> <<>>, batch_size |-> 1, upsert |-> TRUE]
    /\ stats = batch_stats0
    /\ outcomes = <<>>
    /\ attempted = <<>>
    /\ batches = <<>>
    /\ repeat = FALSE
    /\ prevErrors = 0
    /\ called = FALSE
    /\ loaded = 0

\* The distinct lists passed to load_snapshots in one behaviour hold at most
\* MaxRecords records in total; a batch size above the length of the list
\* acts as that length.
MaxRecords == MaxLen
BatchSizes(n) == 1..(IF n = 0 THEN 1 ELSE n)

\* load_snapshots(snapshots, batch_size, upsert) is called and returns.
Load(snapshots, batch_size, upsert, failing) ==
    /\ \E r \in {load_snapshots(store, snapshots, batch_size, upsert, failing)} :
       /\ store' = r.rows
       /\ stats' = r.stats
       /\ outcomes' = r.outcomes
       /\ attempted' = r.attempted
       /\ batches' = r.batches
    /\ storeBefore' = store
    /\ lastCall' = [snapshots |-> snapshots, batch_size |-> batch_size,
                    upsert |-> upsert]
    /\ repeat' = (called /\ snapshots = lastCall.snapshots
                  /\ upsert /\ lastCall.upsert)
    /\ prevErrors' = stats.errors
    /\ called' = TRUE

\* A caller loads a list.
LoadSnapshots(snapshots, batch_size, upsert, failing) ==
    /\ loaded + Len(snapshots) <= MaxRecords
    /\ loaded' = loaded + Len(snapshots)
    /\ Load(snapshots, batch_size, upsert, failing)

\* The caller repeats its last call at once, with the same arguments (a job
\* that is run again).
LoadAgain(failing) ==
    /\ called
    /\ UNCHANGED loaded
    /\ Load(lastCall.snapshots, lastCall.batch_size, lastCall.upsert, failing)

NextLoader ==
    /\ UNCHANGED <<schedulerVars, extractorVars, limiterVars, transformerVars, jobVars, textVars, runAllVars, mainVars, daemonVars, onDemandVars, resultsVars, scoreVars, entityVars>>
    /\ \/ \E snapshots \in SeqsUpTo(AnimeSnapshot, Min(MaxLen, MaxRecords - loaded)),
             upsert \in BOOLEAN :
             \E batch_size \in BatchSizes(Len(snapshots)) :
                \E failing \in 0..NumBatches(Len(snapshots), batch_size) :
                   LoadSnapshots(snapshots, batch_size, upsert, failing)
       \/ \E failing \in 0..NumBatches(Len(lastCall.snapshots), lastCall.batch_size) :
             LoadAgain(failing)

\* -------------------------------------------------------------- scheduler
Threads == 1..NumThreads
Triggers == {"_run_daily_job", "_run_specific_job"}
\* asyncio.run(...) returns a successful result, returns a failed result, or
\* raises (run_job raises ValueError for an unknown job name).
RunOutcomes == {"success", "failed", "raised"}

InitScheduler ==
    /\ is_running = FALSE
    /\ pc = [t \in Threads |-> "idle"]
    /\ entry = [t \in Threads |-> "_run_daily_job"]
    /\ result = [t \in Threads |-> "none"]
    /\ invoked = 0
    /\ skipped = 0
    /\ started = 0

\* A caller enters _run_daily_job or _run_specific_job.
Invoke(t, trigger) ==
    /\ pc[t] = "idle"
    /\ invoked < MaxTriggers
    /\ pc' = [pc EXCEPT ![t] = "check"]
    /\ entry' = [entry EXCEPT ![t] = trigger]
    /\ invoked' = invoked + 1
    /\ UNCHANGED <<is_running, result, skipped, started>>

\* A mutant of SkipBusy: the early return releases the flag.
SkipBusyReleases(t) ==
    /\ pc[t] = "check"
    /\ is_running
    /\ pc' = [pc EXCEPT ![t] = "idle"]
    /\ skipped' = skipped + 1
    /\ is_running' = FALSE
    /\ UNCHANGED <<entry, result, invoked, started>>

\* if self.is_running: log and return
SkipBusy(t) ==
    /\ pc[t] = "check"
    /\ is_running
    /\ pc' = [pc EXCEPT ![t] = "idle"]
    /\ skipped' = skipped + 1
    /\ UNCHANGED <<is_running, entry, result, invoked, started>>

\* if self.is_running: is false, the caller goes on to the assignment
PassCheck(t) ==
    /\ pc[t] = "check"
    /\ ~is_running
    /\ pc' = [pc EXCEPT ![t] = "set"]
    /\ UNCHANGED <<is_running, entry, result, invoked, skipped, started>>

\* self.is_running = True
SetRunning(t) ==
    /\ pc[t] = "set"
    /\ is_running' = TRUE
    /\ pc' = [pc EXCEPT ![t] = "run"]
    /\ started' = started + 1
    /\ UNCHANGED <<entry, result, invoked, skipped>>

\* try: asyncio.run(...) / except Exception: log
RunPipeline(t, outcome) ==
    /\ pc[t] = "run"
    /\ pc' = [pc EXCEPT ![t] = "finally"]
    /\ result' = [result EXCEPT ![t] = outcome]
    /\ UNCHANGED <<is_running, entry, invoked, skipped, started>>

\* A mutant of Finally: the flag is reset after the try, not in a finally.
FinallyAfterTry(t) ==
    /\ pc[t] = "finally"
    /\ is_running' = IF result[t] = "raised" THEN is_running ELSE FALSE
    /\ pc' = [pc EXCEPT ![t] = "idle"]
    /\ UNCHANGED <<entry, result, invoked, skipped, started>>

\* finally: self.is_running = False, and the trigger returns
Finally(t) ==
    /\ pc[t] = "finally"
    /\ is_running' = FALSE
    /\ pc' = [pc EXCEPT ![t] = "idle"]
    /\ UNCHANGED <<entry, result, invoked, skipped, started>>

NextScheduler ==
    /\ UNCHANGED <<loaderVars, extractorVars, limiterVars, transformerVars, jobVars, textVars, runAllVars, mainVars, daemonVars, onDemandVars, resultsVars, scoreVars, entityVars>>
    /\ \E t \in Threads :
          \/ \E trigger \in Triggers : Invoke(t, trigger)
          \/ SkipBusy(t)
          \/ PassCheck(t)
          \/ SetRunning(t)
          \/ \E outcome \in RunOutcomes : RunPipeline(t, outcome)
          \/ Finally(t)

\* -------------------------------------------------------------- extractor
NoCap == 0

\* What one HTTP attempt is answered with:
\*   "ok_next"      200, parses, pagination.has_next_page is true
\*   "ok_last"      200, parses, pagination.has_next_page is false
\*   "unparsable"   200, JikanSearchResponse(**response_data) raises
\*   "rate_limited" 429
\*   "http_error"   client.get or raise_for_status raises httpx.HTTPError
\*   "bad_json"     response.json() raises
Responses == {"ok_next", "ok_last", "unparsable", "rate_limited",
              "http_error", "bad_json"}
FailedAttempts == {"rate_limited", "http_error", "bad_json"}
RetryAfterHeaders == {"absent", "30"}

\* int(response.headers.get("Retry-After", 60))
RetryAfter(header) == IF header = "absent" THEN DefaultRetryAfter ELSE 30

InitExtractor ==
    /\ fetch_pc = "idle"
    /\ max_pages = NoCap
    /\ current_page = 1
    /\ attempt = 1
    /\ all_anime = <<>>
    /\ n429 = 0
    /\ nOther = 0
    /\ lastResponse = "none"
    /\ lastPage = 0
    /\ slept = <<>>
    /\ exit = "none"
    /\ trace = <<>>

\* fetch_anime_search(params, max_pages) is called.
StartFetch(cap) ==
    /\ fetch_pc \in {"idle", "done"}
    /\ fetch_pc' = "request"
    /\ max_pages' = cap
    /\ current_page' = 1
    /\ attempt' = 1
    /\ all_anime' = <<>>
    /\ n429' = 0
    /\ nOther' = 0
    /\ lastResponse' = "none"
    /\ lastPage' = 0
    /\ slept' = <<>>
    /\ exit' = "none"
    /\ trace' = <<>>

\* The items of page k of the API, by mal_id.
ApiPage(k) == [j \in 1..PerPage |-> (k - 1) * PerPage + j]

Max(a, b) == IF a > b THEN a ELSE b

\* tenacity: the wait after failed attempt number a, in milliseconds:
\* max(min, min(multiplier * 2 ** (a - 1), max))
WaitExponential(a) == Max(WaitMin, Min(2 ^ (a - 1), WaitMax)) * 1000

\* A mutant of ShouldRetry: the ceiling is one attempt higher.
ShouldRetryOnceMore(a) == a < MaxAttempts + 1

\* stop_after_attempt(3): attempt number a is followed by another one
ShouldRetry(a) == a < MaxAttempts

\* A mutant of Retried: a 429 is retried however many attempts were made.
RetriedRateLimitedAlways(response, a) ==
    ShouldRetry(a) \/ response = "rate_limited"

\* A mutant of Retried: the JikanAPIError raised for a 429 is not retried.
RetriedNot429(response, a) == ShouldRetry(a) /\ response # "rate_limited"

\* retry_if_exception_type((httpx.HTTPError, JikanAPIError)): every failed
\* attempt leaves _make_request as a JikanAPIError, so tenacity calls it
\* again unless the attempt ceiling is reached.
Retried(response, a) == ShouldRetry(a)

Event(op, page, a, response, header, ms) ==
    [op |-> op, page |-> page, attempt |-> a, response |-> response,
     header |-> header, ms |-> ms]

\* A mutant of RateLimiterWait: the limiter is not awaited.
NoRateLimiterWait(page, a) == <<>>

\* await self.rate_limiter.wait(): asyncio.sleep(self.delay) under the lock
RateLimiterWait(page, a) ==
    <<Event("wait", page, a, "-", "-", jikan_rate_limit_delay)>>

\* A mutant of RateLimitedSleep: a 429 raises without sleeping.
RateLimitedNoSleep(page, a, response, header) == <<>>

\* if response.status_code == 429: await asyncio.sleep(retry_after)
RateLimitedSleep(page, a, response, header) ==
    IF response = "rate_limited"
    THEN <<Event("sleep", page, a, "-", "-", RetryAfter(header) * 1000)>>
    ELSE <<>>

\* What one attempt of _make_request does, in order: the limiter's wait, the
\* GET, the Retry-After sleep on a 429, and tenacity's wait when the attempt
\* failed and another one follows.
AttemptEvents(page, a, response, header) ==
    RateLimiterWait(page, a)
    \o <<Event("get", page, a, response,
               IF response = "rate_limited" THEN header ELSE "-", 0)>>
    \o RateLimitedSleep(page, a, response, header)
    \o (IF response \in FailedAttempts /\ Retried(response, a)
        THEN <<Event("backoff", page, a, "-", "-", WaitExponential(a))>>
        ELSE <<>>)

\* The sleeps of one attempt: rate_limiter.wait(), then Retry-After on a 429.
Sleeps(response, header) ==
    IF response = "rate_limited"
    THEN <<"rate_limiter", RetryAfter(header)>>
    ELSE <<"rate_limiter">>

\* A mutant of Parses: a response that does not fit JikanSearchResponse is
\* used all the same.
ParsesAlways(response) == TRUE

\* JikanSearchResponse(**response_data) does not raise.
Parses(response) == response # "unparsable"

\* A mutant of PageExit: has_next_page is not looked at.
PageExitIgnoresHasNext(response, page, cap) ==
    IF cap # NoCap /\ page >= cap THEN "max_pages" ELSE "none"

\* A mutant of PageExit: the page cap is compared with > instead of >=.
PageExitCapOffByOne(response, page, cap) ==
    IF response = "ok_last" THEN "last_page"
    ELSE IF cap # NoCap /\ page > cap THEN "max_pages"
    ELSE "none"

\* "Check if we should continue": why the loop is left after a collected
\* page, "none" when it goes on.
PageExit(response, page, cap) ==
    IF response = "ok_last" THEN "last_page"
    ELSE IF cap # NoCap /\ page >= cap THEN "max_pages"
    ELSE "none"

\* One attempt of _make_request for page current_page, with what
\* fetch_anime_search does when _make_request returns or raises.
\* A fetch goes no further than page MaxApiPages.
Attempt(response, header) ==
    /\ fetch_pc = "request"
    /\ (response = "ok_next" /\ (max_pages = NoCap \/ current_page < max_pages))
          => current_page < MaxApiPages
    /\ lastResponse' = response
    /\ lastPage' = current_page
    /\ slept' = Sleeps(response, header)
    /\ trace' = trace \o AttemptEvents(current_page, attempt, response, header)
    /\ UNCHANGED max_pages
    /\ IF response \in FailedAttempts
       THEN \* JikanAPIError: tenacity retries until stop_after_attempt(3),
            \* then reraises and fetch_anime_search breaks
            /\ n429' = IF response = "rate_limited" THEN n429 + 1 ELSE n429
            /\ nOther' = IF response = "rate_limited" THEN nOther ELSE nOther + 1
            /\ IF Retried(response, attempt)
               THEN /\ attempt' = attempt + 1
                    /\ UNCHANGED <<fetch_pc, current_page, all_anime, exit>>
               ELSE /\ fetch_pc' = "done"
                    /\ exit' = "api_error"
                    /\ UNCHANGED <<attempt, current_page, all_anime>>
       ELSE IF ~Parses(response)
       THEN /\ fetch_pc' = "done"
            /\ exit' = "parse_error"
            /\ UNCHANGED <<attempt, current_page, all_anime, n429, nOther>>
       ELSE /\ all_anime' = all_anime \o ApiPage(current_page)
            /\ IF PageExit(response, current_page, max_pages) # "none"
               THEN /\ fetch_pc' = "done"
                    /\ exit' = PageExit(response, current_page, max_pages)
                    /\ UNCHANGED <<attempt, current_page, n429, nOther>>
               ELSE /\ current_page' = current_page + 1
                    /\ attempt' = 1
                    /\ n429' = 0
                    /\ nOther' = 0
                    /\ UNCHANGED <<fetch_pc, exit>>

NextExtractor ==
    /\ UNCHANGED <<loaderVars, schedulerVars, limiterVars, transformerVars, jobVars, textVars, runAllVars, mainVars, daemonVars, onDemandVars, resultsVars, scoreVars, entityVars>>
    /\ \/ \E cap \in {NoCap} \cup 1..MaxApiPages : StartFetch(cap)
       \/ \E response \in Responses, header \in RetryAfterHeaders :
             Attempt(response, header)

\* ----------------------------------------------------------- rate limiter
Callers == 1..NumCallers

\* The clock moves in steps of half the delay.
Step == jikan_rate_limit_delay \div 2

InitLimiter ==
    /\ lock_holder = 0
    /\ lock_waiters = <<>>
    /\ wait_pc = [c \in Callers |-> "idle"]
    /\ wake = [c \in Callers |-> 0]
    /\ now = 0
    /\ returns = <<>>
    /\ waits = 0

\* A mutant of Call: wait() sleeps without taking the lock.
CallNoLock(c) ==
    /\ wait_pc[c] = "idle"
    /\ waits < MaxWaits
    /\ waits' = waits + 1
    /\ wait_pc' = [wait_pc EXCEPT ![c] = "sleeping"]
    /\ wake' = [wake EXCEPT ![c] = now + jikan_rate_limit_delay]
    /\ UNCHANGED <<lock_holder, lock_waiters, now, returns>>

\* A coroutine awaits wait(): "async with self.lock".  A free lock nobody
\* waits for is taken at once and asyncio.sleep(self.delay) starts;
\* otherwise the coroutine queues up behind the earlier ones.
Call(c) ==
    /\ wait_pc[c] = "idle"
    /\ waits < MaxWaits
    /\ waits' = waits + 1
    /\ IF lock_holder = 0 /\ lock_waiters = <<>>
       THEN /\ lock_holder' = c
            /\ wait_pc' = [wait_pc EXCEPT ![c] = "sleeping"]
            /\ wake' = [wake EXCEPT ![c] = now + jikan_rate_limit_delay]
            /\ UNCHANGED lock_waiters
       ELSE /\ lock_waiters' = Append(lock_waiters, c)
            /\ wait_pc' = [wait_pc EXCEPT ![c] = "waiting"]
            /\ UNCHANGED <<lock_holder, wake>>
    /\ UNCHANGED <<now, returns>>

\* The first waiter is woken by the release, takes the lock and starts its
\* asyncio.sleep(self.delay).
Acquire(c) ==
    /\ lock_holder = 0
    /\ lock_waiters # <<>>
    /\ Head(lock_waiters) = c
    /\ lock_holder' = c
    /\ lock_waiters' = Tail(lock_waiters)
    /\ wait_pc' = [wait_pc EXCEPT ![c] = "sleeping"]
    /\ wake' = [wake EXCEPT ![c] = now + jikan_rate_limit_delay]
    /\ UNCHANGED <<now, returns, waits>>

\* Time passes while a sleep is pending; a sleep may overrun by one step.
Tick ==
    /\ \E c \in Callers : wait_pc[c] = "sleeping" /\ now <= wake[c]
    /\ now' = now + Step
    /\ UNCHANGED <<lock_holder, lock_waiters, wait_pc, wake, returns, waits>>

\* asyncio.sleep is over: the lock is released and wait() returns.
Return(c) ==
    /\ wait_pc[c] = "sleeping"
    /\ now >= wake[c]
    /\ lock_holder' = IF lock_holder = c THEN 0 ELSE lock_holder
    /\ wait_pc' = [wait_pc EXCEPT ![c] = "idle"]
    /\ returns' = Append(returns, now)
    /\ UNCHANGED <<lock_waiters, wake, now, waits>>

NextLimiter ==
    /\ UNCHANGED <<loaderVars, schedulerVars, extractorVars, transformerVars, jobVars, textVars, runAllVars, mainVars, daemonVars, onDemandVars, resultsVars, scoreVars, entityVars>>
    /\ \/ \E c \in Callers : Call(c)
       \/ \E c \in Callers : Acquire(c)
       \/ Tick
       \/ \E c \in Callers : Return(c)

\* ----------------------------------------------------------- transformer
\* An Optional field is <<>> (None) or <<v>>.  Scores are in hundredths.
Scores == {<<>>, <<-1>>, <<0>>, <<1000>>, <<1001>>}
Episodes == {<<>>, <<-1>>, <<0>>}

\* A JikanAnime as the extractor returns it.  fault "unexpected": building
\* its snapshot raises an exception that is no ValidationError.
JikanAnime ==
    {a \in [mal_id : 1..MaxMalId, score : Scores, episodes : Episodes,
            fault : {"none", "unexpected"}] :
        a.fault = "unexpected" => (a.score = <<>> /\ a.episodes = <<>>)}

\* A mutant of validate_score: 10 itself is rejected.
validate_score_below_ten(v) == v = <<>> \/ ~(v[1] < 0 \/ v[1] >= 1000)

\* AnimeSnapshot.validate_score: the value passes
validate_score(v) == v = <<>> \/ ~(v[1] < 0 \/ v[1] > 1000)

\* AnimeSnapshot.validate_episodes: the value passes
validate_episodes(v) == v = <<>> \/ ~(v[1] < 0)

\* _transform_single_anime: "snapshot", or the kind of exception it raises.
TransformSingleAnime(anime) ==
    IF anime.fault = "unexpected" THEN "exception"
    ELSE IF validate_score(anime.score) /\ validate_episodes(anime.episodes)
    THEN "snapshot"
    ELSE "validation_error"

\* The AnimeSnapshot built from anime.
Snapshot(anime, snapshot_type, snapshot_date) ==
    [mal_id |-> anime.mal_id, score |-> anime.score,
     episodes |-> anime.episodes,
     snapshot_type |-> snapshot_type, snapshot_date |-> snapshot_date]

\* A mutant of Caught: only ValidationError has a handler.
CaughtValidationOnly(kind) == kind = "validation_error"

\* except ValidationError / except Exception of transform_anime_list
Caught(kind) == kind \in {"validation_error", "exception"}

transformation_stats0 ==
    [total_processed |-> 0, successful_transforms |-> 0,
     validation_errors |-> 0, dropped_invalid |-> 0]

\* The body of "for anime in anime_list", one iteration.
TransformRecord(acc, anime, snapshot_type, snapshot_date) ==
    LET kind == TransformSingleAnime(anime)
        counted == [acc EXCEPT !.stats.total_processed = @ + 1]
    IN  IF acc.raised THEN acc
        ELSE IF kind = "snapshot"
        THEN [counted EXCEPT
                !.snapshots = Append(@, Snapshot(anime, snapshot_type, snapshot_date)),
                !.stats.successful_transforms = @ + 1]
        ELSE IF ~Caught(kind)
        THEN [counted EXCEPT !.raised = TRUE]
        ELSE IF kind = "validation_error"
        THEN [counted EXCEPT !.errors = Append(@, anime.mal_id),
                             !.stats.validation_errors = @ + 1]
        ELSE [counted EXCEPT !.errors = Append(@, anime.mal_id),
                             !.stats.dropped_invalid = @ + 1]

RECURSIVE TransformRecords(_, _, _, _, _)
TransformRecords(acc, list, snapshot_type, snapshot_date, i) ==
    IF i > Len(list) THEN acc
    ELSE TransformRecords(TransformRecord(acc, list[i], snapshot_type, snapshot_date),
                          list, snapshot_type, snapshot_date, i + 1)

\* AnimeTransformer.transform_anime_list with the statistics it starts from.
transform_anime_list(before, list, snapshot_type, snapshot_date) ==
    TransformRecords([snapshots |-> <<>>, errors |-> <<>>, stats |-> before,
                      raised |-> FALSE],
                     list, snapshot_type, snapshot_date, 1)

InitTransformer ==
    /\ transformation_stats = transformation_stats0
    /\ validation_errors = <<>>
    /\ anime_list = <<>>
    /\ transformed = <<>>
    /\ statsBefore = transformation_stats0
    /\ transform_raised = FALSE
    /\ fed = 0

\* transform_anime_list(list, snapshot_type, snapshot_date) is called and
\* returns or raises.
Transform(list, snapshot_type, snapshot_date) ==
    /\ anime_list' = list
    /\ statsBefore' = transformation_stats
    /\ \E r \in {transform_anime_list(transformation_stats, list,
                                      snapshot_type, snapshot_date)} :
          /\ transformation_stats' = r.stats
          /\ validation_errors' = r.errors
          /\ transformed' = r.snapshots
          /\ transform_raised' = r.raised

\* A caller transforms a list.
TransformAnimeList(list, snapshot_type, snapshot_date) ==
    /\ fed + Len(list) <= MaxRecords
    /\ fed' = fed + Len(list)
    /\ Transform(list, snapshot_type, snapshot_date)

\* AnimeTransformer.reset_stats()
ResetStats ==
    /\ transformation_stats' = transformation_stats0
    /\ validation_errors' = <<>>
    /\ anime_list' = <<>>
    /\ transformed' = <<>>
    /\ statsBefore' = transformation_stats0
    /\ transform_raised' = FALSE
    /\ UNCHANGED fed

NextTransformer ==
    /\ UNCHANGED <<loaderVars, schedulerVars, extractorVars, limiterVars, jobVars, textVars, runAllVars, mainVars, daemonVars, onDemandVars, resultsVars, scoreVars, entityVars>>
    /\ \/ \E list \in SeqsUpTo(JikanAnime, Min(MaxLen, MaxRecords - fed)),
             snapshot_type \in SnapshotTypes, snapshot_date \in SnapshotDates :
             TransformAnimeList(list, snapshot_type, snapshot_date)
       \/ ResetStats

\* ------------------------------------------------------------ text fields
\* A string is written as its runs: <<[c |-> "A", n |-> 3], [c |-> " ",
\* n |-> 1]>> is "AAA ".  A written form is canonical when neighbouring runs
\* differ in their character.
Whitespace == {" ", "\n"}
TextChars == {"A", "B"} \cup Whitespace
RunLengths == {1, 3, 4996, 4997, 6000}
Runs == [c : TextChars, n : RunLengths]

RECURSIVE TextLen(_)
\* len(t)
TextLen(t) == IF t = <<>> THEN 0 ELSE Head(t).n + TextLen(Tail(t))

RECURSIVE Canonical(_)
\* The canonical written form of the string t.
Canonical(t) ==
    IF Len(t) <= 1 THEN t
    ELSE LET rest == Canonical(Tail(t)) IN
         IF Head(t).c = Head(rest).c
         THEN <<[c |-> Head(t).c, n |-> Head(t).n + Head(rest).n]>> \o Tail(rest)
         ELSE <<Head(t)>> \o rest

RECURSIVE Take(_, _)
\* t[:k]
Take(t, k) ==
    IF k <= 0 \/ t = <<>> THEN <<>>
    ELSE IF Head(t).n >= k THEN <<[c |-> Head(t).c, n |-> k]>>
    ELSE <<Head(t)>> \o Take(Tail(t), k - Head(t).n)

IsWord(run) == run.c \notin Whitespace

\* text.split(): the words of t, the maximal stretches without whitespace.
\* A word is a canonical string; the words come in the order of the text.
RECURSIVE Split(_, _)
Split(t, word) ==
    IF t = <<>> THEN (IF word = <<>> THEN <<>> ELSE <<Canonical(word)>>)
    ELSE IF IsWord(Head(t)) THEN Split(Tail(t), Append(word, Head(t)))
    ELSE (IF word = <<>> THEN <<>> ELSE <<Canonical(word)>>) \o Split(Tail(t), <<>>)

RECURSIVE Join(_)
\* " ".join(words)
Join(words) ==
    IF words = <<>> THEN <<>>
    ELSE IF Len(words) = 1 THEN Head(words)
    ELSE Head(words) \o <<[c |-> " ", n |-> 1]>> \o Join(Tail(words))

\* " ".join(text.split())
Collapse(t) == Join(Split(t, <<>>))

Ellipsis == <<[c |-> ".", n |-> 3]>>

TooLongFromLimit(cleaned) == TextLen(cleaned) >= TextLimit

\* "if len(cleaned) > 5000"
TooLong(cleaned) == TextLen(cleaned) > TextLimit

\* _clean_text(text)
clean_text(text) ==
    IF text = <<>> \/ text[1] = <<>> THEN <<>>
    ELSE LET cleaned == Collapse(text[1]) IN
         IF TooLong(cleaned)
         THEN <<Take(cleaned, TruncatedLength) \o Ellipsis>>
         ELSE <<cleaned>>

InitText ==
    /\ text_called = FALSE
    /\ text_in = <<>>
    /\ text_out = <<>>

\* _clean_text(text) is called and returns.
CleanText(text) ==
    /\ text_called' = TRUE
    /\ text_in' = text
    /\ text_out' = clean_text(text)

NextText ==
    /\ UNCHANGED <<loaderVars, schedulerVars, extractorVars, limiterVars,
                   transformerVars, jobVars, runAllVars, mainVars, daemonVars, onDemandVars, resultsVars, scoreVars, entityVars>>
    /\ ~text_called      \* one call is followed
    /\ \/ CleanText(<<>>)
       \/ \E k \in 0..MaxRuns : \E t \in [1..k -> Runs] : CleanText(<<t>>)

\* -------------------------------------------------------------- pipeline
\* The names of the configured jobs, in the order of the dict ETL_JOBS.
ETL_JOBS ==
    <<"top_anime", "seasonal_current", "seasonal_upcoming", "popular_movies">>

ConfiguredJobs == {ETL_JOBS[i] : i \in 1..Len(ETL_JOBS)}

\* The names run_job is called with.
JobNames == ConfiguredJobs \cup {"no_such_job"}

\* job_config["endpoint"]; fetch_by_job_config supports "/anime" only.
Endpoints == {"/anime", "/manga"}

InitJob ==
    /\ job_pc = "idle"
    /\ job_name = "none"
    /\ endpoint = "none"
    /\ job_status = "none"
    /\ job_error = "none"
    /\ phases = <<>>
    /\ extraction = <<>>
    /\ transformation = <<>>

\* run_job(job_name) with a name that is not in ETL_JOBS: ValueError, raised
\* before job_result exists and outside the try.
JobUnknown(name) ==
    /\ job_pc = "idle"
    /\ name \notin ConfiguredJobs
    /\ job_name' = name
    /\ job_pc' = "raised"
    /\ UNCHANGED <<endpoint, job_status, job_error, phases, extraction, transformation>>
    /\ UNCHANGED <<loaderVars, transformerVars, extractorVars>>

\* "except Exception as e" of run_job: the error text and status "failed"
\* go into job_result, which is returned.
Except ==
    /\ job_pc' = "done"
    /\ job_status' = "failed"
    /\ job_error' = "message"

\* run_job(job_name) for a job whose endpoint is not "/anime": the
\* extraction phase starts, a JikanExtractor is made and fetch_by_job_config
\* raises ValueError inside the try of run_job.
JobUnsupported(name, config_endpoint) ==
    /\ job_pc = "idle"
    /\ name \in ConfiguredJobs
    /\ config_endpoint # "/anime"
    /\ job_name' = name
    /\ endpoint' = config_endpoint
    /\ phases' = <<"extract">>
    /\ Except
    /\ UNCHANGED <<extraction, transformation>>
    /\ UNCHANGED <<loaderVars, transformerVars, extractorVars>>

\* run_job(job_name) is called: job_result starts as "failed", a new
\* JikanExtractor is made and fetch_by_job_config calls fetch_anime_search
\* with the max_pages of the job.  One job run is followed.
JobStart(name, config_endpoint, cap) ==
    /\ job_pc = "idle"
    /\ name \in ConfiguredJobs
    /\ config_endpoint = "/anime"
    /\ job_name' = name
    /\ endpoint' = config_endpoint
    /\ job_pc' = "extract"
    /\ job_status' = "failed"
    /\ phases' = <<"extract">>
    /\ StartFetch(cap)
    /\ UNCHANGED <<job_error, extraction, transformation>>
    /\ UNCHANGED <<loaderVars, transformerVars>>

\* The responses the API gives while a job is followed.
JobResponses == {"ok_next", "ok_last", "unparsable"}

\* The fetch of the job goes on by one HTTP attempt.
JobFetch(response, header) ==
    /\ job_pc = "extract"
    /\ Attempt(response, header)
    /\ UNCHANGED <<loaderVars, transformerVars, jobVars>>

\* A mutant of JobNoData: an empty extraction goes on to the transformation.
JobNoDataTransforms ==
    /\ job_pc = "extract"
    /\ fetch_pc = "done"
    /\ all_anime = <<>>
    /\ extraction' = <<0>>
    /\ phases' = Append(phases, "transform")
    /\ transformation' = <<0>>
    /\ job_pc' = "done"
    /\ job_status' = "success_no_valid_data"
    /\ UNCHANGED <<job_name, endpoint, job_error>>
    /\ UNCHANGED <<loaderVars, transformerVars, extractorVars>>

\* "if not anime_list": nothing was extracted.
JobNoData ==
    /\ job_pc = "extract"
    /\ fetch_pc = "done"
    /\ all_anime = <<>>
    /\ extraction' = <<0>>
    /\ job_pc' = "done"
    /\ job_status' = "success_no_data"
    /\ UNCHANGED <<job_name, endpoint, job_error, phases, transformation>>
    /\ UNCHANGED <<loaderVars, transformerVars, extractorVars>>

\* The JikanAnime with this mal_id, with a score the validator accepts or
\* one it rejects.
Item(mal_id, bad) ==
    [mal_id |-> mal_id, score |-> IF bad THEN <<1001>> ELSE <<1000>>,
     episodes |-> <<0>>, fault |-> "none"]

\* The extracted list goes through transform_anime_list; "if not snapshots"
\* ends the job.  bad: the places of the items with a score out of range.
JobTransform(bad) ==
    /\ job_pc = "extract"
    /\ fetch_pc = "done"
    /\ all_anime # <<>>
    /\ extraction' = <<Len(all_anime)>>
    /\ phases' = Append(phases, "transform")
    /\ \E snapshot_type \in SnapshotTypes, snapshot_date \in SnapshotDates :
          Transform([i \in 1..Len(all_anime) |-> Item(all_anime[i], i \in bad)],
                    snapshot_type, snapshot_date)
    /\ IF transform_raised'
       THEN Except /\ UNCHANGED transformation
       ELSE /\ transformation' = <<Len(transformed')>>
            /\ IF transformed' = <<>>
               THEN job_pc' = "done" /\ job_status' = "success_no_valid_data"
               ELSE job_pc' = "load" /\ UNCHANGED job_status
            /\ UNCHANGED job_error
    /\ UNCHANGED <<job_name, endpoint>>
    /\ UNCHANGED <<loaderVars, extractorVars, fed>>

\* The transformation phase raises before transform_anime_list has returned
\* (job_config["snapshot_type"] is missing, for one): "except Exception".
JobTransformRaises ==
    /\ job_pc = "extract"
    /\ fetch_pc = "done"
    /\ all_anime # <<>>
    /\ extraction' = <<Len(all_anime)>>
    /\ phases' = Append(phases, "transform")
    /\ Except
    /\ UNCHANGED <<job_name, endpoint, transformation>>
    /\ UNCHANGED <<loaderVars, extractorVars, transformerVars>>

\* The snapshot as the loader meets it: how its write statement ends.
WithFault(snapshot, fault) ==
    [mal_id |-> snapshot.mal_id, score |-> snapshot.score,
     episodes |-> snapshot.episodes, snapshot_type |-> snapshot.snapshot_type,
     snapshot_date |-> snapshot.snapshot_date, fault |-> fault, content |-> 1]

\* A mutant of JobLoad: a load that reports every record as errored makes
\* the job "failed".
JobLoadFailsOnErrors(faulty, fault, failing) ==
    /\ job_pc = "load"
    /\ Load([i \in 1..Len(transformed) |->
                WithFault(transformed[i], IF i = faulty THEN fault ELSE "none")],
            DefaultBatchSize, TRUE, failing)
    /\ phases' = Append(phases, "load")
    /\ job_pc' = "done"
    /\ job_status' = IF stats'.errors >= Len(transformed) THEN "failed" ELSE "success"
    /\ UNCHANGED <<job_name, endpoint, job_error, extraction, transformation>>
    /\ UNCHANGED <<loaded, extractorVars, transformerVars>>

\* self.loader.load_snapshots(snapshots, upsert=True), then status "success".
\* faulty: the place of the one snapshot whose write fails (0: none).
JobLoad(faulty, fault, failing) ==
    /\ job_pc = "load"
    /\ Load([i \in 1..Len(transformed) |->
                WithFault(transformed[i], IF i = faulty THEN fault ELSE "none")],
            DefaultBatchSize, TRUE, failing)
    /\ phases' = Append(phases, "load")
    /\ job_pc' = "done"
    /\ job_status' = "success"
    /\ UNCHANGED <<job_name, endpoint, job_error, extraction, transformation>>
    /\ UNCHANGED <<loaded, extractorVars, transformerVars>>

\* load_snapshots raises: self.SessionLocal() of the first batch fails, which
\* is outside the try of _load_batch; load_snapshots logs and re-raises.
JobLoadRaises ==
    /\ job_pc = "load"
    /\ phases' = Append(phases, "load")
    /\ Except
    /\ UNCHANGED <<job_name, endpoint, extraction, transformation>>
    /\ UNCHANGED <<loaderVars, extractorVars, transformerVars>>

NextPipeline ==
    /\ UNCHANGED <<schedulerVars, limiterVars, textVars, runAllVars, mainVars, daemonVars, onDemandVars, resultsVars, scoreVars, entityVars>>
    /\ \/ \E name \in JobNames : JobUnknown(name)
       \/ \E name \in JobNames, config_endpoint \in Endpoints :
             JobUnsupported(name, config_endpoint)
       \/ \E name \in JobNames, config_endpoint \in Endpoints,
             cap \in {NoCap} \cup 1..MaxApiPages :
             JobStart(name, config_endpoint, cap)
       \/ \E response \in JobResponses, header \in RetryAfterHeaders :
             JobFetch(response, header)
       \/ JobNoData
       \/ \E bad \in SUBSET (1..Len(all_anime)) : JobTransform(bad)
       \/ JobTransformRaises
       \/ JobLoadRaises
       \/ \E faulty \in 0..Len(transformed), fault \in {"server", "client"},
             failing \in 0..1 :
             JobLoad(faulty, fault, failing)

\* ------------------------------------------------------------ run_all_jobs
\* How one run_job call goes: which phase raises or returns nothing, "loaded"
\* when the three phases return, "raises" when an exception leaves run_job
\* (ETLJobMetrics.__enter__ or __exit__ fails, outside the try).
RunJobOutcomes ==
    {"extract_raises", "no_records", "transform_raises", "no_snapshots",
     "load_raises", "loaded", "raises"}

\* run_job(job_name) as run_all_jobs sees it: raised, or the status and the
\* error of the returned job_result, and what it did to pipeline_stats.
run_job(name, outcome) ==
    IF name \notin ConfiguredJobs \/ outcome = "raises"
    THEN [raised |-> TRUE, status |-> "none", error |-> "none",
          executed |-> 0, errors |-> <<>>]
    ELSE IF outcome \in {"extract_raises", "transform_raises", "load_raises"}
    THEN [raised |-> FALSE, status |-> "failed", error |-> "message",
          executed |-> 0, errors |-> <<name>>]
    ELSE IF outcome = "no_records"
    THEN [raised |-> FALSE, status |-> "success_no_data", error |-> "none",
          executed |-> 0, errors |-> <<>>]
    ELSE IF outcome = "no_snapshots"
    THEN [raised |-> FALSE, status |-> "success_no_valid_data", error |-> "none",
          executed |-> 0, errors |-> <<>>]
    ELSE [raised |-> FALSE, status |-> "success", error |-> "none",
          executed |-> 1, errors |-> <<>>]

\* A mutant of StartsWithSuccess: only the status "success" counts.
IsSuccess(status) == status = "success"

\* job["status"].startswith("success")
StartsWithSuccess(status) ==
    status \in {"success", "success_no_data", "success_no_valid_data"}

\* A mutant of Remaining: the loop ends at the first job that failed.
RemainingUntilFailure(names, r) ==
    IF r.raised \/ r.status = "failed" THEN <<>> ELSE Tail(names)

\* "for job_name in ETL_JOBS.keys()": the names left after this one.
Remaining(names, r) == Tail(names)

RECURSIVE CountSuccess(_)
\* sum(1 for job in jobs.values() if job["status"].startswith("success"))
CountSuccess(jobs) ==
    IF jobs = <<>> THEN 0
    ELSE (IF StartsWithSuccess(Head(jobs).status) THEN 1 ELSE 0)
         + CountSuccess(Tail(jobs))

InitRunAll ==
    /\ all_pc = "idle"
    /\ todo = <<>>
    /\ pipeline_result = [status |-> "none", jobs |-> <<>>, summary |-> <<>>]
    /\ pipeline_stats = [jobs_executed |-> 0, errors |-> <<>>]
    /\ job_log = <<>>

\* run_all_jobs() is called: the result and the statistics are set up.
RunAllStart ==
    /\ all_pc = "idle"
    /\ all_pc' = "loop"
    /\ todo' = ETL_JOBS
    /\ pipeline_result' = [status |-> "completed", jobs |-> <<>>, summary |-> <<>>]
    /\ pipeline_stats' = [jobs_executed |-> 0, errors |-> <<>>]
    /\ job_log' = <<>>

\* One turn of the for loop: run_job(job_name) returns and its result is
\* stored, or raises and "except Exception" stores a failed entry.
RunAllJob(outcome) ==
    /\ all_pc = "loop"
    /\ todo # <<>>
    /\ LET name == Head(todo)
           r == run_job(name, outcome)
           stored == IF r.raised
                    THEN [job_name |-> name, status |-> "failed", error |-> "message"]
                    ELSE [job_name |-> name, status |-> r.status, error |-> r.error]
       IN  /\ pipeline_result' = [pipeline_result EXCEPT !.jobs = Append(@, stored)]
           /\ pipeline_stats' =
                 [jobs_executed |-> pipeline_stats.jobs_executed + r.executed,
                  errors |-> pipeline_stats.errors \o r.errors
                             \o (IF r.raised THEN <<name>> ELSE <<>>)]
           /\ job_log' = Append(job_log, [job_name |-> name, outcome |-> outcome,
                                          raised |-> r.raised])
           /\ todo' = Remaining(todo, r)
    /\ UNCHANGED all_pc

\* "Create summary": after the loop.
RunAllSummary ==
    /\ all_pc = "loop"
    /\ todo = <<>>
    /\ LET successful_jobs == CountSuccess(pipeline_result.jobs)
           failed_jobs == Len(ETL_JOBS) - successful_jobs
       IN  pipeline_result' =
              [status |-> IF failed_jobs > 0 THEN "completed_with_errors"
                          ELSE pipeline_result.status,
               jobs |-> pipeline_result.jobs,
               summary |-> <<[total_jobs |-> Len(ETL_JOBS),
                              successful_jobs |-> successful_jobs,
                              failed_jobs |-> failed_jobs]>>]
    /\ all_pc' = "done"
    /\ UNCHANGED <<todo, pipeline_stats, job_log>>

NextRunAll ==
    /\ UNCHANGED <<loaderVars, schedulerVars, extractorVars, limiterVars,
                   transformerVars, jobVars, textVars, mainVars, daemonVars, onDemandVars, resultsVars, scoreVars, entityVars>>
    /\ \/ RunAllStart
       \/ \E outcome \in RunJobOutcomes : RunAllJob(outcome)
       \/ RunAllSummary

\* ------------------------------------------------------------ entry points
InitMain ==
    /\ main_pc = "idle"
    /\ main_mode = "none"
    /\ main_result = "none"
    /\ exit_code = -1

\* The exit code of a Python process whose main() returned (0) or was left
\* by an exception (1).  No code path of main.py or scheduler.py calls
\* sys.exit.
ExitCode(raised) == IF raised THEN 1 ELSE 0

\* python main.py --job NAME: an unknown name is printed and main returns;
\* otherwise run_job runs and its status is printed, with the error when the
\* status is "failed".
MainJob(name, outcome) ==
    /\ main_pc = "idle"
    /\ main_mode' = "job"
    /\ main_pc' = "exited"
    /\ IF name \notin ConfiguredJobs
       THEN main_result' = "none" /\ exit_code' = ExitCode(FALSE)
       ELSE LET r == run_job(name, outcome) IN
            /\ main_result' = r.status
            /\ exit_code' = ExitCode(r.raised)
    /\ UNCHANGED runAllVars

\* python main.py: run_all_jobs starts.
MainAll ==
    /\ main_pc = "idle"
    /\ main_mode' = "all"
    /\ main_pc' = "running"
    /\ RunAllStart
    /\ UNCHANGED <<main_result, exit_code>>

\* python scheduler.py --run-once: run_once_now calls run_daily_etl, which
\* tests the connections and returns a failed result when one is down or
\* when the test raises, and calls run_all_jobs otherwise.
RunOnce(connections) ==
    /\ main_pc = "idle"
    /\ main_mode' = "run_once"
    /\ IF connections = "ok"
       THEN /\ main_pc' = "running"
            /\ RunAllStart
            /\ UNCHANGED <<main_result, exit_code>>
       ELSE /\ main_pc' = "exited"
            /\ main_result' = "failed"
            /\ exit_code' = ExitCode(FALSE)
            /\ UNCHANGED runAllVars

\* run_all_jobs goes on by one job, or makes its summary.
MainRunAllStep ==
    /\ main_pc = "running"
    /\ \/ \E outcome \in RunJobOutcomes : RunAllJob(outcome)
       \/ RunAllSummary
    /\ UNCHANGED mainVars

\* run_all_jobs has returned: the result is printed and main returns.
MainReturn ==
    /\ main_pc = "running"
    /\ all_pc = "done"
    /\ main_pc' = "exited"
    /\ main_result' = pipeline_result.status
    /\ exit_code' = ExitCode(FALSE)
    /\ UNCHANGED <<main_mode, runAllVars>>

NextMain ==
    /\ UNCHANGED <<loaderVars, schedulerVars, extractorVars, limiterVars,
                   transformerVars, jobVars, textVars, daemonVars, onDemandVars, resultsVars, scoreVars, entityVars>>
    /\ \/ \E name \in JobNames, outcome \in RunJobOutcomes : MainJob(name, outcome)
       \/ MainAll
       \/ \E connections \in {"ok", "down", "raises"} : RunOnce(connections)
       \/ MainRunAllStep
       \/ MainReturn

\* The loader followed for the stored columns: the same calls, with
\* snapshots that differ in their content and whose statements succeed.
NextFrame ==
    /\ UNCHANGED <<schedulerVars, extractorVars, limiterVars, transformerVars,
                   jobVars, textVars, runAllVars, mainVars, daemonVars, onDemandVars, resultsVars, scoreVars, entityVars>>
    /\ \/ \E snapshots \in SeqsUpTo(AnimeSnapshotData, Min(MaxLen, MaxRecords - loaded)),
             upsert \in BOOLEAN :
             \E batch_size \in BatchSizes(Len(snapshots)) :
                \E failing \in 0..NumBatches(Len(snapshots), batch_size) :
                   LoadSnapshots(snapshots, batch_size, upsert, failing)
       \/ \E failing \in 0..NumBatches(Len(lastCall.snapshots), lastCall.batch_size) :
             LoadAgain(failing)

\* ------------------------------------------------------------- daemon loop
InitDaemon ==
    /\ daemon_pc = "idle"
    /\ startup = "none"
    /\ due = FALSE
    /\ triggers = 0
    /\ cycles = <<>>
    /\ interrupted = FALSE

\* run_scheduler() is called: the schedule is set up and the connections are
\* tested; a connection that is down is logged, a test that raises is caught
\* and logged, and the loop starts in every case.
DaemonStart(connections) ==
    /\ daemon_pc = "idle"
    /\ startup' = connections
    /\ daemon_pc' = "poll"
    /\ UNCHANGED <<due, triggers, cycles, interrupted>>

\* Time passes and the scheduled job comes due.
ComeDue ==
    /\ daemon_pc \in {"poll", "error_sleep"}
    /\ ~due
    /\ triggers < MaxTriggers
    /\ due' = TRUE
    /\ triggers' = triggers + 1
    /\ UNCHANGED <<daemon_pc, startup, cycles, interrupted>>

\* A mutant of AfterRun: a pipeline run that raises ends the loop.
AfterRunRaisedStops(outcome) == IF outcome = "raised" THEN "stopped" ELSE "poll"

\* _run_daily_job logs the result of the run, catches the exception of a run
\* that raises, resets is_running and returns to run_pending; the loop sleeps
\* 60 seconds and polls again.
AfterRun(outcome) == "poll"

\* schedule.run_pending() with a job that is due: _run_daily_job finds
\* is_running False, runs run_daily_etl, and time.sleep(60) follows.
RunPending(outcome) ==
    /\ daemon_pc = "poll"
    /\ due
    /\ ~is_running
    /\ due' = FALSE
    /\ cycles' = Append(cycles, outcome)
    /\ daemon_pc' = AfterRun(outcome)
    /\ UNCHANGED <<startup, triggers, interrupted>>

\* schedule.run_pending() itself raises: "except Exception" of the loop logs
\* and sleeps 300 seconds; the job that was due has not been run.
RunPendingRaises ==
    /\ daemon_pc = "poll"
    /\ daemon_pc' = "error_sleep"
    /\ UNCHANGED <<startup, due, triggers, cycles, interrupted>>

\* time.sleep(300) is over: the loop polls again.
ErrorSleepOver ==
    /\ daemon_pc = "error_sleep"
    /\ daemon_pc' = "poll"
    /\ UNCHANGED <<startup, due, triggers, cycles, interrupted>>

\* Ctrl+C: "except KeyboardInterrupt: break" while polling or sleeping 60
\* seconds; during the 300 seconds of the error handler the interrupt leaves
\* run_scheduler as an exception.  The loop is over either way.
KeyboardInterrupt ==
    /\ daemon_pc \in {"poll", "error_sleep"}
    /\ daemon_pc' = "stopped"
    /\ interrupted' = TRUE
    /\ UNCHANGED <<startup, due, triggers, cycles>>

NextDaemon ==
    /\ UNCHANGED <<loaderVars, schedulerVars, extractorVars, limiterVars,
                   transformerVars, jobVars, textVars, runAllVars, mainVars, onDemandVars, resultsVars, scoreVars, entityVars>>
    /\ \/ \E connections \in {"ok", "down", "raises"} : DaemonStart(connections)
       \/ ComeDue
       \/ \E outcome \in RunOutcomes : RunPending(outcome)
       \/ RunPendingRaises
       \/ ErrorSleepOver
       \/ KeyboardInterrupt

\* ------------------------------------------------------- run_once_now
InitOnDemand ==
    /\ once_pc = "idle"
    /\ once_result = "none"

\* run_once_now() is called: it logs and enters asyncio.run(self.run_daily_etl())
\* without reading or writing self.is_running.
RunOnceNow ==
    /\ once_pc = "idle"
    /\ once_pc' = "run"
    /\ UNCHANGED once_result

\* run_daily_etl returns its result (it catches every Exception and returns a
\* failed result), and run_once_now returns it.
RunOnceNowReturn(outcome) ==
    /\ once_pc = "run"
    /\ once_pc' = "idle"
    /\ once_result' = outcome

\* The triggers of the scheduler and an on-demand caller, on one ETLScheduler.
NextOnDemand ==
    /\ UNCHANGED <<loaderVars, extractorVars, limiterVars, transformerVars, jobVars, textVars, runAllVars, mainVars, daemonVars, resultsVars, scoreVars, entityVars>>
    /\ \/ /\ UNCHANGED onDemandVars
          /\ \E t \in Threads :
                \/ \E trigger \in Triggers : Invoke(t, trigger)
                \/ SkipBusy(t)
                \/ PassCheck(t)
                \/ SetRunning(t)
                \/ \E outcome \in RunOutcomes : RunPipeline(t, outcome)
                \/ Finally(t)
       \/ /\ UNCHANGED schedulerVars
          /\ \/ RunOnceNow
             \/ \E outcome \in {"success", "failed"} : RunOnceNowReturn(outcome)

\* ------------------------------------------------- transformation summary
\* AnimeTransformer.get_transformation_summary(): "stats" is the dictionary
\* self.transformation_stats itself, "validation_errors" the list
\* self.validation_errors; success_rate, a quotient times 100, is kept as
\* <<numerator, denominator>>.
get_transformation_summary(transformer_stats, errors) ==
    [stats |-> transformer_stats,
     validation_errors |-> errors,
     success_rate |-> <<transformer_stats.successful_transforms * 100,
                        Max(transformer_stats.total_processed, 1)>>]

\* ------------------------------------------------------ returned results
InitResults == returned = <<>>

\* What a reader of a returned job result finds in it now.  The "stats" of
\* its transformation summary is the dictionary self.transformation_stats of
\* the pipeline's transformer, which transform_anime_list updates in place;
\* its "validation_errors" is the list of that one call, since every call
\* binds self.validation_errors to a new list.
Read(job_result) ==
    IF job_result.transformation = <<>> THEN job_result
    ELSE [job_result EXCEPT !.transformation[1].stats = transformation_stats]

\* run_job(name) from its call to its return, on a pipeline that has run
\* other jobs before: list is what the extraction returns, loading how
\* load_snapshots ends.
RunJob(name, list, loading) ==
    /\ Len(returned) < MaxJobRuns
    /\ fed + Len(list) <= MaxRecords
    /\ fed' = fed + Len(list)
    /\ IF list = <<>>
       THEN /\ returned' = Append(returned,
                   [job_name |-> name, status |-> "success_no_data",
                    extraction |-> 0, transformation |-> <<>>, loading |-> <<>>])
            /\ UNCHANGED <<transformation_stats, validation_errors, anime_list,
                           transformed, statsBefore, transform_raised>>
            /\ UNCHANGED loaderVars
       ELSE /\ \E snapshot_type \in SnapshotTypes, snapshot_date \in SnapshotDates :
                  Transform(list, snapshot_type, snapshot_date)
            /\ LET summary == get_transformation_summary(transformation_stats',
                                                         validation_errors')
                   job_result == [job_name |-> name, status |-> "failed",
                                  extraction |-> Len(list),
                                  transformation |-> <<summary>>, loading |-> <<>>]
               IN  IF transformed' = <<>>
                   THEN /\ returned' = Append(returned,
                               [job_result EXCEPT !.status = "success_no_valid_data"])
                        /\ UNCHANGED loaderVars
                   ELSE IF loading = "raises"
                   THEN /\ returned' = Append(returned, job_result)
                        /\ UNCHANGED loaderVars
                   ELSE /\ Load([i \in 1..Len(transformed') |->
                                    WithFault(transformed'[i], "none")],
                                DefaultBatchSize, TRUE,
                                IF loading = "commit_fails" THEN 1 ELSE 0)
                        /\ UNCHANGED loaded
                        /\ returned' = Append(returned,
                               [job_result EXCEPT !.status = "success",
                                                  !.loading = <<stats'>>])

\* The jobs are run in the order of ETL_JOBS, as run_all_jobs does, one
\* round after the other.
NextJob == ETL_JOBS[(Len(returned) % Len(ETL_JOBS)) + 1]

NextResults ==
    /\ UNCHANGED <<schedulerVars, extractorVars, limiterVars, jobVars, textVars, runAllVars, mainVars, daemonVars, onDemandVars, scoreVars, entityVars>>
    /\ \E loading \in {"returns", "commit_fails", "raises"} :
          \E k \in 0..Min(MaxLen, MaxRecords - fed) :
             \E ids \in [1..k -> 1..MaxMalId], bad \in SUBSET (1..k) :
                RunJob(NextJob, [i \in 1..k |-> Item(ids[i], i \in bad)], loading)

\* ------------------------------------------------------------ score column
\* The scores a snapshot can hold: validate_score has accepted them.  Scores
\* are counted in hundredths, the scale of the column DECIMAL(4, 2).
ValidScores == {<<>>} \cup {<<s>> : s \in 0..1000}

\* "score": float(snapshot.score) if snapshot.score else None
\* (a score of 0 is falsy)
snapshot_to_dict_score(score) ==
    IF score = <<>> THEN <<>>
    ELSE IF score[1] = 0 THEN <<>>
    ELSE score

InitScore ==
    /\ score_called = FALSE
    /\ score_in = <<>>
    /\ score_stored = <<>>

\* A snapshot with this score is written by the INSERT of _load_batch: the
\* column gets the :score parameter of _snapshot_to_dict.
StoreScore(score) ==
    /\ score_called' = TRUE
    /\ score_in' = score
    /\ score_stored' = snapshot_to_dict_score(score)

NextScore ==
    /\ UNCHANGED <<loaderVars, schedulerVars, extractorVars, limiterVars, transformerVars, jobVars, textVars, runAllVars, mainVars, daemonVars, onDemandVars, resultsVars, entityVars>>
    /\ ~score_called     \* one write is followed
    /\ \E score \in ValidScores : StoreScore(score)

\* ------------------------------------------------------------ entity lists
EntityFields ==
    {"genres", "explicit_genres", "themes", "demographics", "studios",
     "producers", "licensors"}

\* A JikanEntity, and the dictionary made from it.
JikanEntity(mal_id) ==
    [mal_id |-> mal_id, type |-> "anime", name |-> "name", url |-> "url"]

\* What a field of the raw record holds: <<>> when it is absent (None),
\* <<list>> when it is present.
EntityLists ==
    {<<>>, << <<>> >>, << <<JikanEntity(1)>> >>,
     << <<JikanEntity(1), JikanEntity(2)>> >>}

\* _convert_entities_to_dict(entities): "if not entities: return None"
\* holds for None and for the empty list.
convert_entities_to_dict(entities) ==
    IF entities = <<>> THEN <<>>
    ELSE IF entities[1] = <<>> THEN <<>>
    ELSE << [i \in 1..Len(entities[1]) |->
               [mal_id |-> entities[1][i].mal_id, type |-> entities[1][i].type,
                name |-> entities[1][i].name, url |-> entities[1][i].url]] >>

InitEntities ==
    /\ entities_called = FALSE
    /\ entities_in = [field \in EntityFields |-> <<>>]
    /\ entities_out = [field \in EntityFields |-> <<>>]

\* _transform_single_anime(anime, ...) for a record with these entity lists.
TransformEntities(anime) ==
    /\ entities_called' = TRUE
    /\ entities_in' = anime
    /\ entities_out' = [field \in EntityFields |-> convert_entities_to_dict(anime[field])]

NextEntities ==
    /\ UNCHANGED <<loaderVars, schedulerVars, extractorVars, limiterVars, transformerVars, jobVars, textVars, runAllVars, mainVars, daemonVars, onDemandVars, resultsVars, scoreVars>>
    /\ ~entities_called      \* one record is followed
    /\ \E anime \in [EntityFields -> EntityLists] : TransformEntities(anime)

\* ---------------------------------------------------- loader: the batches
\* One load_snapshots call on the empty table is followed, with lists of up
\* to MaxBatchRecords records, every batch size from 1 to one more than the
\* length of the list, and each choice of the batch whose commit fails.
PartitionSnapshots == {s \in AnimeSnapshot : s.fault \in {"none", "client"}}

NextPartition ==
    /\ UNCHANGED <<schedulerVars, extractorVars, limiterVars, transformerVars, jobVars, textVars, runAllVars, mainVars, daemonVars, onDemandVars, resultsVars, scoreVars, entityVars>>
    /\ ~called
    /\ UNCHANGED loaded
    /\ \E k \in 0..MaxBatchRecords, upsert \in BOOLEAN :
          \E snapshots \in [1..k -> PartitionSnapshots], batch_size \in 1..(k + 1) :
             \E failing \in 0..NumBatches(k, batch_size) :
                Load(snapshots, batch_size, upsert, failing)

Init ==
    /\ InitLoader(<<>>)
    /\ InitScheduler
    /\ InitExtractor
    /\ InitLimiter
    /\ InitTransformer
    /\ InitJob
    /\ InitText
    /\ InitRunAll
    /\ InitMain
    /\ InitDaemon
    /\ InitOnDemand
    /\ InitResults
    /\ InitScore
    /\ InitEntities

\* The loader is followed from every prior table; the scheduler and the
\* extractor never touch the table and start from the empty one.
InitPrior ==
    /\ \E prior \in PriorStores : InitLoader(prior)
    /\ InitScheduler
    /\ InitExtractor
    /\ InitLimiter
    /\ InitTransformer
    /\ InitJob
    /\ InitText
    /\ InitRunAll
    /\ InitMain
    /\ InitDaemon
    /\ InitOnDemand
    /\ InitResults
    /\ InitScore
    /\ InitEntities

SpecLoader == InitPrior /\ [][NextLoader]_vars

SpecScheduler == Init /\ [][NextScheduler]_vars

SpecExtractor == Init /\ [][NextExtractor]_vars

SpecTransformer == Init /\ [][NextTransformer]_vars

SpecPipeline == Init /\ [][NextPipeline]_vars

SpecText == Init /\ [][NextText]_vars

\* The event loop runs every coroutine that is ready and its clock advances.
SpecRunAll == Init /\ [][NextRunAll]_vars

SpecMain == Init /\ [][NextMain]_vars

SpecFrame == InitPrior /\ [][NextFrame]_vars

\* The loop polls every 60 seconds and again 300 seconds after an error of
\* run_pending, and run_pending does not raise at every poll for ever.
SpecDaemon ==
    /\ Init /\ [][NextDaemon]_vars
    /\ WF_daemonVars(ErrorSleepOver)
    /\ SF_daemonVars(\E outcome \in RunOutcomes : RunPending(outcome))

SpecOnDemand == Init /\ [][NextOnDemand]_vars

SpecResults == Init /\ [][NextResults]_vars

\* The fetch with its attempts going on: every HTTP attempt ends, with a
\* response or with an error of the client (its timeout), and the sleeps
\* between the attempts are finite.
SpecFetch ==
    /\ Init /\ [][NextExtractor]_vars
    /\ WF_extractorVars(\E response \in Responses, header \in RetryAfterHeaders :
                           Attempt(response, header))

SpecScore == Init /\ [][NextScore]_vars

SpecEntities == Init /\ [][NextEntities]_vars

SpecPartition == Init /\ [][NextPartition]_vars

SpecLimiter ==
    /\ Init
    /\ [][NextLimiter]_vars
    /\ WF_limiterVars(Tick)
    /\ \A c \in Callers : WF_limiterVars(Acquire(c)) /\ WF_limiterVars(Return(c))

\* ================================================================ loader
B == lastCall.snapshots

SameKeysAndCount == KeySet(store) = KeySet(storeBefore) /\ Len(store) = Len(storeBefore)

AllValid(snapshots) == \A i \in 1..Len(snapshots) : snapshots[i].fault = "none"

C2_NaturalKeyUnique ==
    \A i, j \in 1..Len(store) :
        i # j => NaturalKey(store[i]) # NaturalKey(store[j])

C2_Witness ==
    /\ called /\ ~lastCall.upsert
    /\ Len(B) = 2 /\ B[1].mal_id = B[2].mal_id
    /\ outcomes = <<"insert", "skip">>
    /\ Len(storeBefore) = 1 /\ Len(store) = 2

\* C3: if load_snapshots(B, upsert=True) completed with zero errors, the
\* immediately following load_snapshots(B, upsert=True) reports
\* successful_inserts = 0 and successful_updates = len(B).
C3_SecondLoadReport ==
    (repeat /\ prevErrors = 0) =>
        /\ stats.successful_inserts = 0
        /\ stats.successful_updates = Len(B)

C3_Witness ==
    /\ repeat /\ prevErrors = 0
    /\ Len(B) = 2
    /\ stats.successful_updates = 2
    /\ Len(storeBefore) >= 1

\* A call of one batch in which exactly one record's write is rejected, every
\* record's write is attempted and the commit does not fail.
Faulty(snapshots) == {i \in 1..Len(snapshots) : snapshots[i].fault # "none"}

DistinctNewKeys ==
    /\ \A i, j \in 1..Len(B) : i # j => NaturalKey(B[i]) # NaturalKey(B[j])
    /\ \A i \in 1..Len(B) : NaturalKey(B[i]) \notin KeySet(storeBefore)

OneBadRecordBatch ==
    /\ called
    /\ Len(batches) = 1
    /\ ~batches[1].commit_failed
    /\ Cardinality(Faulty(B)) = 1
    /\ (lastCall.upsert \/ DistinctNewKeys)

\* C7: in a batch of N records in which exactly one record's write raises and
\* the commit succeeds, every record is attempted, N-1 successes and one
\* error are reported, and the one error detail names the failing record.
C7_PartialBatchCounts ==
    OneBadRecordBatch =>
        /\ Len(outcomes) = Len(B)
        /\ stats.successful_inserts + stats.successful_updates = Len(B) - 1
        /\ stats.errors = 1
        /\ \A i \in Faulty(B) : stats.error_details = <<B[i].mal_id>>

\* C8: after such a batch the N-1 other records are in the store.
C8_PartialBatchPersisted ==
    OneBadRecordBatch =>
        \A i \in 1..Len(B) :
            B[i].fault = "none" => NaturalKey(B[i]) \in KeySet(store)

\* C9: a batch whose commit fails is rolled back, none of its writes
\* persists, and its statistics report errors = len(batch).
C9_CommitFailure ==
    \A k \in 1..Len(batches) :
        batches[k].commit_failed =>
            /\ batches[k].after = batches[k].before
            /\ batches[k].batch_stats.errors = Len(batches[k].batch)
            /\ batches[k].events = <<"commit_failed", "rollback", "close">>

C9_Witness ==
    \E k \in 1..Len(batches) :
        /\ batches[k].commit_failed
        /\ Len(batches[k].batch) = 2
        /\ batches[k].batch_stats.successful_inserts = 2
        /\ store = storeBefore

\* ============================================================= scheduler
Executing == {t \in Threads : pc[t] = "run"}

\* C4: whatever the interleaving of concurrent trigger invocations, at most
\* one pipeline execution is in progress at any time.
C4_MutualExclusion == Cardinality(Executing) <= 1

\* C5: a trigger that set is_running returns only with the flag reset,
\* whether the run succeeded, returned a failed result or raised; once every
\* trigger has returned the flag is false.
C5_FlagReleased ==
    /\ []((\A t \in Threads : pc[t] = "idle") => ~is_running)
    /\ [][\A t \in Threads :
            (pc[t] \in {"run", "finally"} /\ pc'[t] = "idle") => ~is_running']_vars

C5_Witness ==
    \E t \in Threads :
        /\ pc[t] = "idle" /\ result[t] = "raised"
        /\ started >= 1 /\ ~is_running

\* C6: a trigger that finds is_running true returns without starting a
\* pipeline run and without changing the flag, and is not queued: every
\* invocation either returns at the check or runs, never both.
C6_SkipWhenBusy ==
    /\ [](started + skipped
            + Cardinality({t \in Threads : pc[t] \in {"check", "set"}}) = invoked)
    /\ [][\A t \in Threads :
            (pc[t] = "check" /\ is_running /\ pc'[t] # "check") =>
                /\ pc'[t] = "idle"
                /\ is_running' = is_running
                /\ started' = started
                /\ result' = result]_vars

C6_Witness ==
    /\ skipped >= 1 /\ is_running
    /\ \E t, u \in Threads : pc[t] = "run" /\ pc[u] = "idle" /\ u # t

\* ============================================================= extractor
\* C10 as stated: 429 responses alone never end pagination, a page is still
\* collected after any number of consecutive 429 responses.
C10_429NeverEndsPaginationAsStated ==
    (fetch_pc = "done" /\ exit = "api_error") => nOther > 0

\* C10 amended: a 429 is slept on for Retry-After and the request is
\* attempted again like any other failed attempt, within the ceiling of
\* MaxAttempts attempts per page request: a page answered 200 is collected
\* whatever 429 responses came before, and errors end pagination only after
\* MaxAttempts consecutive failed attempts of one page request.
C10_429Retried ==
    /\ lastResponse = "rate_limited" =>
          /\ Len(slept) = 2
          /\ \/ fetch_pc = "request" /\ attempt = n429 + nOther + 1
             \/ fetch_pc = "done" /\ exit = "api_error"
    /\ (fetch_pc = "done" /\ exit = "api_error") => n429 + nOther = MaxAttempts
    /\ lastResponse \in {"ok_next", "ok_last"} =>
          /\ Len(all_anime) >= PerPage
          /\ SubSeq(all_anime, Len(all_anime) - PerPage + 1, Len(all_anime))
                = ApiPage(lastPage)

C10_Witness ==
    /\ fetch_pc = "done" /\ exit = "last_page"
    /\ n429 = 2 /\ nOther = 0
    /\ lastResponse = "ok_last"
    /\ all_anime = ApiPage(1) \o ApiPage(2)

\* The HTTP requests of the fetch so far, by their place in the trace.
Gets == {i \in 1..Len(trace) : trace[i].op = "get"}

RECURSIVE PrevGet(_)
\* The request before place i of the trace, 0 when there is none.
PrevGet(i) ==
    IF i <= 1 THEN 0
    ELSE IF trace[i - 1].op = "get" THEN i - 1 ELSE PrevGet(i - 1)

Failed(i) == trace[i].response \in {"rate_limited", "http_error", "bad_json"}

IsGet(e) == e.op = "get"

\* The pages asked for, request by request.
RequestedPages ==
    LET gets == SelectSeq(trace, IsGet) IN [i \in 1..Len(gets) |-> gets[i].page]

RECURSIVE SumMs(_, _)
\* The time slept between place i and place j of the trace.
SumMs(i, j) == IF i >= j THEN 0 ELSE trace[i].ms + SumMs(i + 1, j)

RECURSIVE Pages(_)
\* The items of pages 1..k, page after page.
Pages(k) == IF k = 0 THEN <<>> ELSE Pages(k - 1) \o ApiPage(k)

UpTo(k) == [i \in 1..k |-> i]

\* C11: one page request is attempted at most 3 times; an attempt after the
\* first follows a failed attempt of the same page; the third failed attempt
\* ends the request, the error reaches fetch_anime_search, which returns, and
\* no fourth attempt is made.
C11_RetryBound ==
    /\ \A p \in 1..MaxApiPages :
          Cardinality({i \in Gets : trace[i].page = p}) <= 3
    /\ \A i \in Gets :
          /\ trace[i].attempt \in 1..3
          /\ trace[i].attempt > 1 =>
                LET prev == PrevGet(i) IN
                /\ prev # 0
                /\ trace[prev].page = trace[i].page
                /\ trace[prev].attempt = trace[i].attempt - 1
                /\ Failed(prev)
          /\ (trace[i].attempt = 3 /\ Failed(i)) =>
                /\ \A j \in Gets : j <= i
                /\ fetch_pc = "done"
                /\ exit = "api_error"

C11_Witness ==
    /\ fetch_pc = "done" /\ exit = "api_error"
    /\ RequestedPages = <<1, 2, 2, 2>>
    /\ all_anime = ApiPage(1)

\* C12: a response with status 429 is followed at once by a sleep of
\* Retry-After seconds (60 when the header is absent), and the next request
\* comes after that sleep.
C12_429Backoff ==
    \A i \in Gets :
        trace[i].response = "rate_limited" =>
            /\ i < Len(trace)
            /\ trace[i + 1].op = "sleep"
            /\ trace[i + 1].ms =
                  (IF trace[i].header = "absent" THEN 60 ELSE 30) * 1000
            /\ \A j \in Gets : j > i => j > i + 1

C12_Witness ==
    \E i \in Gets :
        /\ trace[i].response = "rate_limited" /\ trace[i].header = "absent"
        /\ trace[i + 1].ms = 60000
        /\ \E j \in Gets : j > i /\ trace[j].page = trace[i].page
                            /\ trace[j].attempt = 2

\* C13: rate_limiter.wait() comes right before every request (first
\* attempts, retries and later pages alike), and two consecutive requests
\* are at least `delay` apart.
C13_RateLimitCompliance ==
    \A i \in Gets :
        /\ i > 1
        /\ trace[i - 1].op = "wait"
        /\ trace[i - 1].ms = jikan_rate_limit_delay
        /\ LET prev == PrevGet(i) IN
           prev # 0 => SumMs(prev, i) >= jikan_rate_limit_delay

C13_Witness ==
    /\ Cardinality(Gets) >= 3
    /\ \E i, j \in Gets : trace[i].page = 1 /\ trace[i].attempt = 2
                          /\ trace[j].page = 2 /\ trace[j].attempt = 1

NoFailure == \A i \in Gets : trace[i].response \in {"ok_next", "ok_last"}

\* C15: when no request fails, every page parses and page k is the first to
\* report has_next_page = false, the fetch has asked for pages 1..k in
\* order, holds exactly their items and asks for nothing more.
C15_PaginationTermination ==
    (NoFailure /\ lastResponse = "ok_last") =>
        /\ fetch_pc = "done"
        /\ RequestedPages = UpTo(lastPage)
        /\ all_anime = Pages(lastPage)
        /\ max_pages # NoCap => lastPage <= max_pages

C15_Witness ==
    /\ NoFailure /\ lastResponse = "ok_last"
    /\ max_pages = NoCap
    /\ RequestedPages = <<1, 2>>
    /\ Len(all_anime) = 2 * PerPage

\* C16: with has_next_page = true on every page and no failure, a fetch with
\* max_pages = N asks for pages 1..N, once each, and returns their items; no
\* fetch with max_pages = N ever asks for page N + 1.
C16_MaxPageCap ==
    /\ (max_pages # NoCap /\ \A i \in Gets : trace[i].response = "ok_next") =>
          /\ Cardinality(Gets) <= max_pages
          /\ RequestedPages = UpTo(Cardinality(Gets))
          /\ Cardinality(Gets) = max_pages =>
                fetch_pc = "done" /\ all_anime = Pages(max_pages)
    /\ max_pages # NoCap => \A i \in Gets : trace[i].page <= max_pages

C16_Witness ==
    /\ max_pages = 2 /\ fetch_pc = "done" /\ exit = "max_pages"
    /\ RequestedPages = <<1, 2>>
    /\ \A i \in Gets : trace[i].response = "ok_next"
    /\ all_anime = Pages(2)

\* C17: when the request for page k fails for the third time, or the
\* response of page k does not parse, the fetch ends without raising, asks
\* for no further page and returns the items of pages 1..k-1.
C17_GracefulDegradation ==
    /\ \A i \in Gets :
          ((trace[i].attempt = 3 /\ Failed(i)) \/ trace[i].response = "unparsable") =>
             /\ \A j \in Gets : j <= i
             /\ fetch_pc = "done"
             /\ exit \in {"api_error", "parse_error"}
             /\ all_anime = Pages(trace[i].page - 1)
    /\ exit \in {"none", "last_page", "max_pages", "api_error", "parse_error"}

C17_Witness ==
    /\ fetch_pc = "done" /\ exit = "parse_error"
    /\ lastPage = 2 /\ lastResponse = "unparsable"
    /\ all_anime = Pages(1)

\* =========================================================== rate limiter
\* C14: concurrent callers of wait() on one limiter pass one at a time, any
\* two returns of wait() are at least `delay` apart, and every caller
\* returns in the end.
C14_LimiterSerialization ==
    /\ [](Cardinality({c \in Callers : wait_pc[c] = "sleeping"}) <= 1)
    /\ [](\A i, j \in 1..Len(returns) :
             i < j => returns[j] - returns[i] >= jikan_rate_limit_delay)
    /\ \A c \in Callers : (wait_pc[c] # "idle") ~> (wait_pc[c] = "idle")

C14_Witness ==
    /\ Len(returns) >= 1
    /\ \E c \in Callers : wait_pc[c] = "waiting"
    /\ \E c \in Callers : wait_pc[c] = "sleeping"

\* ============================================================ transformer
\* C19: transform_anime_list never raises for a record; every input record
\* is either returned as a snapshot or dropped with exactly one entry in the
\* error list; a call on n records grows total_processed by n and
\* successful_transforms by the length of its output; and total_processed =
\* successful_transforms + validation_errors + dropped_invalid after every
\* call.
C19_TransformerIsolation ==
    /\ ~transform_raised
    /\ Len(transformed) + Len(validation_errors) = Len(anime_list)
    /\ transformation_stats.total_processed
          = statsBefore.total_processed + Len(anime_list)
    /\ transformation_stats.successful_transforms
          = statsBefore.successful_transforms + Len(transformed)
    /\ transformation_stats.total_processed
          = transformation_stats.successful_transforms
            + transformation_stats.validation_errors
            + transformation_stats.dropped_invalid

C19_Witness ==
    /\ Len(anime_list) = 2
    /\ anime_list[1].fault = "unexpected"
    /\ Len(transformed) = 1
    /\ transformation_stats.dropped_invalid = 1
    /\ transformation_stats.total_processed = 2
    /\ validation_errors = <<anime_list[1].mal_id>>

\* The acceptance rule as the claim states it (scores in hundredths).
Accepted(a) ==
    /\ a.score = <<>> \/ (0 <= a.score[1] /\ a.score[1] <= 1000)
    /\ a.episodes = <<>> \/ a.episodes[1] >= 0

IsAccepted(a) == Accepted(a) /\ a.fault = "none"

IsRejected(a) == ~Accepted(a) /\ a.fault = "none"

NotAccepted(a) == ~IsAccepted(a)

\* C20: a record is accepted iff its score is absent or within [0, 10] and
\* its episode count is absent or >= 0; a record that breaks a bound is
\* dropped and counted as a validation error, and the other records of the
\* list come out as they would without it.
C20_ValidationBoundary ==
    /\ transformed =
          [i \in 1..Len(SelectSeq(anime_list, IsAccepted)) |->
              Snapshot(SelectSeq(anime_list, IsAccepted)[i], "top", 1)]
    /\ transformation_stats.validation_errors
          = statsBefore.validation_errors + Len(SelectSeq(anime_list, IsRejected))
    /\ validation_errors =
          [i \in 1..Len(SelectSeq(anime_list, NotAccepted)) |->
              SelectSeq(anime_list, NotAccepted)[i].mal_id]

C20_Witness ==
    /\ Len(anime_list) = 2
    /\ anime_list[1].score = <<1001>>
    /\ anime_list[2].score = <<1000>> /\ anime_list[2].episodes = <<0>>
    /\ Len(transformed) = 1 /\ transformed[1].score = <<1000>>
    /\ transformation_stats.validation_errors = 1

\* =============================================================== pipeline
MalIds(list) == [i \in 1..Len(list) |-> list[i].mal_id]

\* C18: the fetched list is the collected pages one after the other, each in
\* its own order; transform_anime_list returns the valid records in the
\* order of its input; load_snapshots works on the records in list order: so
\* the order of the items is kept from extraction through load.
C18_OrderPreservation ==
    /\ all_anime = Pages(Len(all_anime) \div PerPage)
    /\ job_pc \in {"load", "done"} /\ anime_list # <<>> =>
          /\ MalIds(anime_list) = all_anime
          /\ MalIds(transformed) = MalIds(SelectSeq(anime_list, IsAccepted))
    /\ job_pc = "done" /\ job_status = "success" =>
          /\ attempted = MalIds(transformed)
          /\ \A i, j \in 1..Len(attempted) : i < j => attempted[i] < attempted[j]

C18_Witness ==
    /\ job_pc = "done" /\ job_status = "success"
    /\ Len(all_anime) = 2 * PerPage
    /\ Len(transformed) >= 2
    /\ Len(transformed) < Len(anime_list)
    /\ attempted = MalIds(transformed)

\* ============================================================ text fields
\* C21: a text whose whitespace-collapsed form is longer than 5000
\* characters is returned as exactly 5000 characters, the first 4997 of the
\* collapsed form and then "..."; a collapsed form of at most 5000 characters
\* is returned as it is.
C21_TextTruncation ==
    (text_called /\ text_in # <<>> /\ text_in[1] # <<>>) =>
        LET collapsed == Collapse(text_in[1]) IN
        /\ text_out # <<>>
        /\ IF TextLen(collapsed) > 5000
           THEN /\ TextLen(text_out[1]) = 5000
                /\ Take(text_out[1], 4997) = Take(collapsed, 4997)
                /\ text_out[1][Len(text_out[1])] = [c |-> ".", n |-> 3]
           ELSE text_out[1] = collapsed

C21_Witness ==
    /\ text_called
    /\ text_in = <<<<[c |-> "A", n |-> 4997], [c |-> "\n", n |-> 3],
                     [c |-> "B", n |-> 3]>>>>
    /\ text_out = <<<<[c |-> "A", n |-> 4997], [c |-> ".", n |-> 3]>>>>

JobStatuses == {"success", "success_no_data", "success_no_valid_data", "failed"}

IsPrefix(s, t) == Len(s) <= Len(t) /\ SubSeq(t, 1, Len(s)) = s

InPhases(phase) == \E i \in 1..Len(phases) : phases[i] = phase

\* C22: the phases of a run_job execution come in the order extract,
\* transform, load; transform starts only after an extraction of at least one
\* record and load only after a transformation of at least one snapshot; the
\* returned status is success_no_data exactly when the extraction returned
\* nothing, success_no_valid_data exactly when the transformation returned
\* nothing, and success or failed otherwise.
C22_JobStateMachine ==
    /\ IsPrefix(phases, <<"extract", "transform", "load">>)
    /\ InPhases("transform") => extraction # <<>> /\ extraction[1] >= 1
    /\ InPhases("load") => transformation # <<>> /\ transformation[1] >= 1
    /\ job_pc = "done" =>
          /\ job_status \in JobStatuses
          /\ job_status = "success_no_data" <=> extraction = <<0>>
          /\ job_status = "success_no_valid_data" <=> transformation = <<0>>

C22_Witness ==
    /\ job_pc = "done"
    /\ job_status = "success_no_valid_data"
    /\ phases = <<"extract", "transform">>
    /\ extraction = <<2 * PerPage>>
    /\ transformation = <<0>>

\* C25: run_job called with an unknown job name, or with a job whose endpoint
\* is not supported, raises to its caller at once: no HTTP request is made
\* and the error is not turned into a "failed" job result.
C25_ConfigErrorsPropagate ==
    (job_pc # "idle" /\ (job_name \notin ConfiguredJobs \/ endpoint # "/anime")) =>
        /\ job_pc = "raised"
        /\ trace = <<>>
        /\ job_status # "failed"

\* =========================================================== run_all_jobs
JobNamesOf(jobs) == [i \in 1..Len(jobs) |-> jobs[i].job_name]

PhaseRaised == {"extract_raises", "transform_raises", "load_raises"}

\* C23: an exception raised in the extract, transform or load phase of a
\* configured job is caught inside run_job, which returns status "failed"
\* with the error text; run_all_jobs goes on to every remaining configured
\* job, never raises, and its result has exactly one entry per configured
\* job.
C23_FailureContainment ==
    /\ Len(pipeline_result.jobs) = Len(job_log)
    /\ \A i \in 1..Len(job_log) :
          job_log[i].outcome \in PhaseRaised =>
             /\ ~job_log[i].raised
             /\ pipeline_result.jobs[i].status = "failed"
             /\ pipeline_result.jobs[i].error = "message"
    /\ all_pc = "loop" => JobNamesOf(pipeline_result.jobs) \o todo = ETL_JOBS
    /\ all_pc = "done" => JobNamesOf(pipeline_result.jobs) = ETL_JOBS
    /\ all_pc \in {"idle", "loop", "done"}

C23_Witness ==
    /\ all_pc = "done"
    /\ job_log[1].outcome = "extract_raises"
    /\ job_log[2].outcome = "load_raises"
    /\ job_log[3].outcome = "raises"
    /\ job_log[4].outcome = "loaded"
    /\ pipeline_result.jobs[4].status = "success"

\* C24: in the result of run_all_jobs successful_jobs is the number of job
\* results whose status starts with "success", successful_jobs + failed_jobs
\* = total_jobs, and the status is "completed_with_errors" exactly when some
\* job did not end in a success status, "completed" otherwise.
C24_PipelineSummary ==
    all_pc = "done" =>
        LET summary == pipeline_result.summary[1]
            jobs == pipeline_result.jobs
            succeeded == {i \in 1..Len(jobs) :
                             jobs[i].status \in {"success", "success_no_data",
                                                 "success_no_valid_data"}}
        IN  /\ summary.successful_jobs = Cardinality(succeeded)
            /\ summary.successful_jobs + summary.failed_jobs = summary.total_jobs
            /\ pipeline_result.status = "completed_with_errors"
                  <=> succeeded # 1..Len(jobs)
            /\ pipeline_result.status = "completed" <=> succeeded = 1..Len(jobs)

C24_Witness ==
    /\ all_pc = "done"
    /\ pipeline_result.status = "completed_with_errors"
    /\ pipeline_result.summary[1].successful_jobs = 3
    /\ pipeline_result.summary[1].failed_jobs = 1
    /\ pipeline_result.jobs[1].status = "success_no_data"
    /\ pipeline_result.jobs[2].status = "success_no_valid_data"

\* =========================================================== entry points
\* C26: in one-shot mode (main.py with one job or all jobs, scheduler.py
\* --run-once) a pipeline-level failure, that is a job status "failed", a
\* pipeline status "completed_with_errors" or a run result "failed", ends the
\* process with a non-zero exit code.
C26_OneShotExitStatus ==
    (main_pc = "exited" /\ main_result \in {"failed", "completed_with_errors"}) =>
        exit_code # 0

\* C30: for every load_snapshots call, whatever errors occur, every input
\* record is counted in exactly one outcome (successful_inserts +
\* successful_updates + duplicate_skips + errors = total_snapshots), there
\* are as many error_details entries as errors, and a record counted as
\* inserted or updated is stored when the call returns.
C30_LoaderAccounting ==
    called =>
        /\ stats.successful_inserts + stats.successful_updates
              + stats.duplicate_skips + stats.errors = Len(lastCall.snapshots)
        /\ Len(stats.error_details) = stats.errors
        /\ \A k \in 1..Len(outcomes) :
              outcomes[k] \in {"insert", "update"} =>
                 NaturalKey(lastCall.snapshots[k]) \in KeySet(store)

\* ========================================================= stored columns
\* The places of the records of the batch with the natural key of row.
Matching(batch, row) ==
    {k \in 1..Len(batch) : NaturalKey(batch[k]) = NaturalKey(row)}

LastOf(S) == CHOOSE k \in S : \A l \in S : l <= k

RowWithKey(rows, row) ==
    rows[CHOOSE j \in 1..Len(rows) : NaturalKey(rows[j]) = NaturalKey(row)]

\* C27: when load_snapshots with upsert=True writes a record whose natural
\* key is already stored, the stored row gets the title, score, rank,
\* popularity, members and favorites of the record and a new update
\* timestamp; its other columns and its natural key stay as they were, and a
\* row no record matches is not touched.
C27_UpsertFrame ==
    (called /\ lastCall.upsert) =>
        /\ \A i \in 1..Len(storeBefore) :
              /\ \E j \in 1..Len(store) : NaturalKey(store[j]) = NaturalKey(storeBefore[i])
              /\ \A column \in OtherColumns :
                    RowWithKey(store, storeBefore[i]).data[column]
                       = storeBefore[i].data[column]
        /\ \A b \in 1..Len(batches) :
              ~batches[b].commit_failed =>
                 \A i \in 1..Len(batches[b].before) :
                    LET old == batches[b].before[i]
                        new == RowWithKey(batches[b].after, old)
                        hits == Matching(batches[b].batch, old)
                    IN  IF hits = {} THEN new = old
                        ELSE /\ \A column \in UpdatedColumns :
                                   new.data[column]
                                      = batches[b].batch[LastOf(hits)].content
                             /\ \A column \in OtherColumns :
                                   new.data[column] = old.data[column]
                             /\ new.updated_at = "current_timestamp"

C27_Witness ==
    /\ called /\ lastCall.upsert
    /\ stats.successful_updates = 1
    /\ Len(storeBefore) = 1 /\ Len(store) = 1
    /\ \A column \in UpdatedColumns \cup OtherColumns : storeBefore[1].data[column] = 1
    /\ \A column \in UpdatedColumns : store[1].data[column] = 2
    /\ \A column \in OtherColumns : store[1].data[column] = 1
    /\ store[1].updated_at = "current_timestamp"

\* The place in the call of record k of batch b.
PlaceInCall(b, k) == (b - 1) * lastCall.batch_size + k

\* Record k of the batch has a key that is stored when its turn comes: in
\* the rows the batch started from, or inserted earlier in the same batch.
KeyExists(batch, before, k) ==
    \/ NaturalKey(batch[k]) \in KeySet(before)
    \/ \E l \in 1..(k - 1) : NaturalKey(batch[l]) = NaturalKey(batch[k])

RECURSIVE InsertedRows(_, _, _)
\* The rows of the records of the batch whose key is not stored at their turn.
InsertedRows(batch, before, k) ==
    IF k > Len(batch) THEN <<>>
    ELSE (IF KeyExists(batch, before, k) THEN <<>> ELSE <<Row(batch[k])>>)
         \o InsertedRows(batch, before, k + 1)

\* C28: with upsert=False a record whose natural key is already stored (one
\* inserted earlier in the same batch included) is counted as a duplicate
\* skip and writes nothing, the stored row staying as it was; a record whose
\* key is not stored is inserted and counted as an insert.
C28_InsertOnlyMode ==
    (called /\ ~lastCall.upsert) =>
        /\ \A b \in 1..Len(batches) :
              LET batch == batches[b].batch
                  before == batches[b].before
              IN  /\ \A k \in 1..Len(batch) :
                        outcomes[PlaceInCall(b, k)]
                           = IF KeyExists(batch, before, k) THEN "skip" ELSE "insert"
                  /\ ~batches[b].commit_failed =>
                        batches[b].after = before \o InsertedRows(batch, before, 1)
        /\ stats.duplicate_skips
              = Cardinality({k \in 1..Len(outcomes) : outcomes[k] = "skip"})
        /\ stats.successful_inserts
              = Cardinality({k \in 1..Len(outcomes) : outcomes[k] = "insert"})

C28_Witness ==
    /\ called /\ ~lastCall.upsert
    /\ Len(storeBefore) = 1
    /\ Len(lastCall.snapshots) = 2 /\ lastCall.batch_size = 2
    /\ outcomes = <<"skip", "insert">>
    /\ stats.duplicate_skips = 1 /\ stats.successful_inserts = 1
    /\ lastCall.snapshots[1].content = 2
    /\ store = Append(storeBefore, Row(lastCall.snapshots[2]))

\* ============================================================ daemon loop
\* C29: in daemon mode neither a scheduled run that returns a failed result
\* or raises, nor a failed connection test at start-up, ends the loop: the
\* loop is over only after a keyboard interrupt, no trigger that came due is
\* dropped, and a job that is due is run at a later poll unless the loop is
\* interrupted first.
C29_LoopResilience ==
    /\ [](daemon_pc = "stopped" => interrupted)
    /\ [](triggers = Len(cycles) + (IF due THEN 1 ELSE 0))
    /\ (due ~> (~due \/ daemon_pc = "stopped"))

C29_Witness ==
    /\ startup = "down"
    /\ cycles = <<"failed", "raised", "success">>
    /\ daemon_pc = "poll"
    /\ ~interrupted

\* ---------------------------------------------------------------- C31
Range(seq) == {seq[i] : i \in 1..Len(seq)}

\* The session calls of the last load_snapshots, batch after batch.
RECURSIVE SessionCalls(_)
SessionCalls(k) ==
    IF k = 0 THEN <<>> ELSE SessionCalls(k - 1) \o batches[k].session

\* The number of sessions open after the first n session calls.
RECURSIVE OpenSessions(_, _)
OpenSessions(calls, n) ==
    IF n = 0 THEN 0
    ELSE OpenSessions(calls, n - 1)
         + (IF calls[n] = "SessionLocal" THEN 1
            ELSE IF calls[n] = "close" THEN -1 ELSE 0)

\* C31: every batch of a load_snapshots call has a session of its own, which
\* is closed on the commit path and on the rollback path before the next
\* batch opens its session; a batch whose commit fails is rolled back and the
\* batches after it are attempted all the same, and what the other batches
\* committed is in the store when the call returns.
C31_BatchIsolation ==
    LET n == Len(lastCall.snapshots)
        calls == SessionCalls(Len(batches))
    IN  /\ Len(batches) = (IF n = 0 THEN 0 ELSE NumBatches(n, lastCall.batch_size))
        /\ \A i \in 1..Len(calls) :
              /\ calls[i] = "SessionLocal" => OpenSessions(calls, i - 1) = 0
              /\ OpenSessions(calls, i) \in {0, 1}
        /\ OpenSessions(calls, Len(calls)) = 0
        /\ \A b \in 1..Len(batches) :
              /\ batches[b].before = (IF b = 1 THEN storeBefore ELSE batches[b - 1].after)
              /\ batches[b].commit_failed => "rollback" \in Range(batches[b].session)
              /\ batches[b].commit_failed => batches[b].after = batches[b].before
              /\ KeySet(batches[b].before) \subseteq KeySet(batches[b].after)
        /\ Len(batches) > 0 => store = batches[Len(batches)].after

\* A call whose first commit fails and whose second batch stores a row.
C31_Witness ==
    /\ Len(batches) >= 2
    /\ batches[1].commit_failed
    /\ ~batches[2].commit_failed
    /\ Len(batches[2].after) > Len(batches[2].before)
    /\ Len(store) > Len(storeBefore)
\* ---------------------------------------------------------------- C32
\* The callers that are inside a pipeline execution started by a trigger.
TriggerRuns == {t \in Threads : pc[t] = "run"}

\* C32: every pipeline execution the scheduler starts, the on-demand one of
\* run_once_now included, has is_running true for as long as it lasts, so a
\* trigger that arrives during an on-demand run is skipped and no triggered
\* run is in progress at the same time as an on-demand run.
C32_OnDemandCovered ==
    /\ once_pc = "run" => is_running
    /\ once_pc = "run" => TriggerRuns = {}
    /\ \A t \in TriggerRuns : is_running
\* ---------------------------------------------------------------- C33
\* C33: after every transform_anime_list call whose input was not empty and
\* whose records were all dropped, the transformation summary has
\* total_processed > 0 and successful_transforms = 0, also when the same
\* transformer has transformed other lists before.
C33_DegradedRunDetection ==
    LET summary == get_transformation_summary(transformation_stats, validation_errors)
    IN  (anime_list # <<>> /\ transformed = <<>> /\ ~transform_raised)
            => /\ summary.stats.total_processed > 0
               /\ summary.stats.successful_transforms = 0
\* ---------------------------------------------------------------- C34
\* C34: a job result that run_job has returned keeps every value it was
\* returned with, whatever run_job calls follow on the same pipeline; the
\* transformation statistics in the result of one job are the same after
\* another job has run.
C34_ResultsFinal ==
    \A i \in 1..Len(returned) : Read(returned[i]) = returned[i]
\* ---------------------------------------------------------------- C35
\* C35: a run_job whose extraction returned at least one record, whose
\* transformation returned at least one snapshot and whose load_snapshots
\* returned has status "success", whatever the loader reports, a load with
\* every record errored included; a returned status "failed" comes with the
\* message of an exception that left one of the phases.
C35_StatusVersusLoadErrors ==
    job_pc = "done" =>
        /\ (/\ extraction # <<>> /\ extraction[1] >= 1
            /\ transformation # <<>> /\ transformation[1] >= 1
            /\ InPhases("load")
            /\ job_error = "none") => job_status = "success"
        /\ job_status = "failed" => (job_error = "message" /\ phases # <<>>)
        /\ job_error = "message" => job_status = "failed"

\* A job whose only batch fails at the commit: every record is reported as
\* errored, nothing is stored, and the job is a success.
C35_Witness ==
    /\ job_pc = "done"
    /\ job_status = "success"
    /\ Len(batches) = 1
    /\ batches[1].commit_failed
    /\ stats.errors = Len(lastCall.snapshots)
    /\ stats.errors >= 1
    /\ store = <<>>
\* ---------------------------------------------------------------- C36
\* C36: whatever the API answers, a fetch with max_pages = N makes at most
\* 3 * N HTTP attempts, ends, and ends by returning its list: the loop is
\* left for the last page, the page cap, a failed request or a response
\* that does not parse, never by an exception.
C36_FetchTermination ==
    /\ [](max_pages # NoCap => Cardinality(Gets) <= MaxAttempts * max_pages)
    /\ [](fetch_pc = "done" =>
             exit \in {"last_page", "max_pages", "api_error", "parse_error"})
    /\ ((fetch_pc = "request" /\ max_pages # NoCap) ~> fetch_pc = "done")

\* A fetch of two pages that used every attempt: each page answered 429
\* twice before it came.
C36_Witness ==
    /\ max_pages = 2
    /\ fetch_pc = "done"
    /\ exit = "max_pages"
    /\ Cardinality(Gets) = MaxAttempts * 2
    /\ \E i \in Gets : trace[i].response = "rate_limited"
\* ---------------------------------------------------------------- C37
\* C37: a snapshot whose score is a valid number s, 0 included, is stored
\* with the score s; the stored score is NULL only for a snapshot without a
\* score.
C37_ScorePersisted ==
    score_called =>
        /\ score_in # <<>> => score_stored = score_in
        /\ score_stored = <<>> => score_in = <<>>

\* ---------------------------------------------------------------- C38
\* C38: for each entity list of a raw record the snapshot holds None exactly
\* when the field was absent; a field that is present and empty comes out as
\* an empty list.
C38_MissingVersusEmpty ==
    entities_called =>
        \A field \in EntityFields :
           /\ entities_out[field] = <<>> <=> entities_in[field] = <<>>
           /\ entities_in[field] = << <<>> >> => entities_out[field] = << <<>> >>
\* ---------------------------------------------------------------- C39
\* The records of the first k batches of the last call, in order.
RECURSIVE BatchRecords(_)
BatchRecords(k) ==
    IF k = 0 THEN <<>> ELSE BatchRecords(k - 1) \o batches[k].batch

\* The statistics of the first k batches of the last call, added up.
RECURSIVE BatchSum(_)
BatchSum(k) ==
    IF k = 0 THEN batch_stats0
    ELSE LET sum == BatchSum(k - 1)
             batch == batches[k].batch_stats
         IN  [successful_inserts |-> sum.successful_inserts + batch.successful_inserts,
              successful_updates |-> sum.successful_updates + batch.successful_updates,
              duplicate_skips |-> sum.duplicate_skips + batch.duplicate_skips,
              errors |-> sum.errors + batch.errors,
              error_details |-> sum.error_details \o batch.error_details]

\* C39: load_snapshots with batch size b >= 1 on n records works through
\* ceil(n/b) batches in input order; every batch but the last holds b
\* consecutive records and the last one the rest, so every record is
\* attempted in exactly one batch; every field of the returned statistics is
\* the sum of that field over the batches.
C39_BatchPartition ==
    called =>
        LET n == Len(lastCall.snapshots)
            b == lastCall.batch_size
        IN  /\ Len(batches) = NumBatches(n, b)
            /\ BatchRecords(Len(batches)) = lastCall.snapshots
            /\ \A k \in 1..Len(batches) :
                  /\ Len(batches[k].batch) >= 1
                  /\ Len(batches[k].batch) <= b
                  /\ k < Len(batches) => Len(batches[k].batch) = b
            /\ attempted = [i \in 1..n |-> lastCall.snapshots[i].mal_id]
            /\ stats = BatchSum(Len(batches))

\* Three records in batches of two: a full batch and a batch of one, each
\* with something to report.
C39_Witness ==
    /\ called
    /\ Len(lastCall.snapshots) = 3
    /\ lastCall.batch_size = 2
    /\ Len(batches) = 2
    /\ Len(batches[2].batch) = 1
    /\ batches[1].batch_stats.successful_inserts = 2
    /\ batches[2].batch_stats.errors = 1
    /\ stats.successful_inserts = 2
    /\ stats.errors = 1
\* ---------------------------------------------------------------- C40
\* The text has no character that is not whitespace.
Blank(t) == \A i \in 1..Len(t) : ~IsWord(t[i])

\* C40: cleaning a cleaned text changes nothing, for every text, the empty,
\* the blank and the over-long ones included; a text without a non-whitespace
\* character is cleaned to None, as the empty text is.
C40_CleanTextIdempotent ==
    text_called =>
        /\ clean_text(text_out) = text_out
        /\ (text_in # <<>> /\ Blank(text_in[1])) => text_out = <<>>

====
